---- MODULE Spec2Model ----
(***************************************************************************)
(* Mobile-Lis: a React Native storefront client.  The application is a set *)
(* of independent screen components over one shared HTTP client (axios)    *)
(* and one authentication context.  Every screen keeps its own useState    *)
(* fields, so the model is a family of scenarios, one per component tree   *)
(* under study; the variable `mounted` names it, and each scenario has its *)
(* own specification over the shared variable list.                        *)
(*                                                                         *)
(* An async handler is cut at its awaits: one action is the completion of  *)
(* the awaited operation together with the synchronous code that follows   *)
(* it up to the next await.  A render is a function of the state (React    *)
(* re-renders after every state update), so what a component shows is an   *)
(* operator over the variables.  Money is counted in integer cents.        *)
(***************************************************************************)
EXTENDS Integers, Sequences, FiniteSets, Bags, TLC

VARIABLES
    mounted,        \* the component tree this behaviour is about
    \* ---- device storage (AsyncStorage) and AuthContext ----
    storedToken,    \* AsyncStorage '@LisMobile:token'
    storedUser,     \* AsyncStorage '@LisMobile:user'
    user,           \* AuthProvider useState user
    authLoading,    \* AuthProvider useState loading
    loadPc,         \* position of loadStoredData
    loadedUser,     \* loadStoredData's local storedUser
    calls,          \* requests of the shared api client in flight, by slot
    signOutPc,      \* position of signOut
    loginLoading,   \* LoginScreen useState loading
    loginError,     \* LoginScreen useState error
    restarts,       \* app starts so far (bounded)
    signedOut,      \* history: "yes" once signOut completed, "restarted" after the next app start
    cleared401,     \* history: a 401 cleared the credentials and no login was started since
    \* ---- ProductFormScreen ----
    pfVersion,      \* "category": the form with the category buttons; "plain": the one without
    pfName,
    pfDescription,
    pfPrice,
    pfQuantity,
    pfCategory,
    pfLoading,
    pfError,
    pfInFlight,     \* POST /products requests in flight
    pfMounted,      \* FALSE once navigation.goBack() left the screen
    pfLast,         \* history: what the last handleSubmit did
    \* ---- ProductListScreen ----
    plListId,       \* route.params.listId (Null: all products)
    plProducts,
    plLoading,
    plRefreshing,
    plError,
    plEditModalVisible,
    plSelectedProduct,
    plEditForm,
    plReqs,         \* this screen's requests in flight, by slot
    plReturned,     \* history: the entries the last successful load returned
    plAfterLoad,    \* history: a load succeeded and no fetch or mutation followed
    plMounted,      \* FALSE once the screen was removed from the navigation stack
    \* ---- SalesSummaryScreen ----
    srvSales,       \* the sale records the server holds, oldest first
    ssSales,        \* useState sales: the formatted records
    ssLoading,
    ssError,
    ssInFlight,     \* TRUE while getSalesSummary is awaited
    ssFetched,      \* history: the records the last successful fetchSales received
    \* ---- SalesSummaryScreen.fetchSales, the formatting of one record ----
    fsSale,         \* the fetched record
    fsFormatted,    \* the formatted record in a sequence, empty before the formatting ran
    fsProduct,      \* a product as GET /api/products returns it on SalesScreen, in a sequence
    fsWithCommission, \* that product as loadProducts stores it, in a sequence
    \* ---- StockListScreen ----
    srvLists,       \* the custom lists the server holds
    slLists,
    slLoading,
    slRefreshing,
    slError,
    slCreateModalVisible,
    slNewListName,
    slProducts,
    slUsers,
    slSelectedProducts,
    slSelectedUsers,
    slReqs,         \* this screen's requests in flight, by slot
    slMounted,      \* FALSE once the screen was removed from the navigation stack
    \* ---- SalesScreen ----
    srvSaleLog,     \* the sale records the server holds, oldest first
    saProducts,
    saSales,        \* useState sales: count per product id
    saAllSales,
    saLoading,
    saProcessingProduct,
    saSuccess,
    saError,
    saReqs,         \* the bag of this screen's requests in flight
    saLast,         \* history: the last loadSales response that arrived
    saOvertaken,    \* history: that response was sent before the one that arrived before it
    saReturned,     \* history: the arguments of the last handleQuantityChange that returned early
    \* ---- HomeScreen ----
    hsProducts,
    hsFilteredProducts,
    hsSelectedCategory,
    hsLoading,
    hsRefreshing,
    hsError,
    hsReqs,         \* the bag of this screen's requests in flight
    hsFilterPending, \* the filter effect is scheduled: one of its dependencies was set
    hsSent,         \* history: GET /products requests sent so far
    hsTriggers,     \* history: the mount plus the presses and pulls that call loadProducts
    \* ---- navigation ----
    navStack,       \* the routes of the native stack, the focused one last
    navTab,         \* the focused tab of TabNavigator
    \* ---- CustomListFormScreen ----
    clName,
    clProducts,
    clUsers,
    clSelectedProducts,
    clSelectedUsers,
    clLoading,
    clDataLoading,  \* TRUE while loadData awaits its two requests
    clError,
    clPosts         \* the bodies of the createCustomList requests in flight

authVars == <<storedToken, storedUser, user, authLoading, loadPc, loadedUser, calls,
              signOutPc, loginLoading, loginError, restarts,
              signedOut, cleared401>>

pfVars == <<pfVersion, pfName, pfDescription, pfPrice, pfQuantity, pfCategory, pfLoading,
            pfError, pfInFlight, pfMounted, pfLast>>

plVars == <<plListId, plProducts, plLoading, plRefreshing, plError, plEditModalVisible,
            plSelectedProduct, plEditForm, plReqs, plReturned, plAfterLoad, plMounted>>

ssVars == <<srvSales, ssSales, ssLoading, ssError, ssInFlight, ssFetched>>

fsVars == <<fsSale, fsFormatted, fsProduct, fsWithCommission>>

slVars == <<srvLists, slLists, slLoading, slRefreshing, slError, slCreateModalVisible,
            slNewListName, slProducts, slUsers, slSelectedProducts, slSelectedUsers, slReqs,
            slMounted>>

saVars == <<srvSaleLog, saProducts, saSales, saAllSales, saLoading, saProcessingProduct,
            saSuccess, saError, saReqs, saLast, saOvertaken, saReturned>>

hsVars == <<hsProducts, hsFilteredProducts, hsSelectedCategory, hsLoading, hsRefreshing,
            hsError, hsReqs, hsFilterPending, hsSent, hsTriggers>>

navVars == <<navStack, navTab>>

clVars == <<clName, clProducts, clUsers, clSelectedProducts, clSelectedUsers, clLoading,
            clDataLoading, clError, clPosts>>

vars == <<mounted, authVars, pfVars, plVars, ssVars, fsVars, slVars, saVars, hsVars, navVars, clVars>>

\* what the actions of one scenario leave alone
notAuth == <<pfVars, plVars, ssVars, fsVars, slVars, saVars, hsVars, navVars, clVars>>
notPf == <<authVars, plVars, ssVars, fsVars, slVars, saVars, hsVars, navVars, clVars>>
notPl == <<authVars, pfVars, ssVars, fsVars, slVars, saVars, hsVars, navVars, clVars>>
notSs == <<authVars, pfVars, plVars, fsVars, slVars, saVars, hsVars, navVars, clVars>>
notFs == <<authVars, pfVars, plVars, ssVars, slVars, saVars, hsVars, navVars, clVars>>
notSl == <<authVars, pfVars, plVars, ssVars, fsVars, saVars, hsVars, navVars, clVars>>
notSa == <<authVars, pfVars, plVars, ssVars, fsVars, slVars, hsVars, navVars, clVars>>
notHs == <<authVars, pfVars, plVars, ssVars, fsVars, slVars, saVars, navVars, clVars>>
notNav == <<pfVars, plVars, ssVars, fsVars, slVars, saVars, hsVars, clVars>>
notCl == <<authVars, pfVars, plVars, ssVars, fsVars, slVars, saVars, hsVars, navVars>>

\* ------------------------------------------------------------------ bounds
MaxCalls == 2
MaxRestarts == 1
MaxInFlight == 2
MaxProducts == 2
MaxSales == 2
MaxLines == 2
MaxLists == 2
MaxPosts == 1
MaxLoads == 3

\* ------------------------------------------------------------------ values
Null == "null"
Users == {"admin", "seller"}
UserIsAdmin(u) == u = "admin"
TokenOf(u) == IF u = "admin" THEN "tokenA" ELSE "tokenS"
FieldValues == {"", "a"}
Categories == {"masculino", "feminino", "infantil"}

\* JSON.stringify / JSON.parse of a User, as AsyncStorage holds it
JSONstringify(u) == "json:" \o u
JSONparse(s) == CHOOSE u \in Users : JSONstringify(u) = s

\* JavaScript truthiness of a string-or-null value
Truthy(v) == v # Null /\ v # ""

NoCall == [kind |-> "none", pc |-> "idle", hdr |-> <<>>, u |-> Null]
Slots == 1..MaxCalls
FreeSlots == {i \in Slots : calls[i].kind = "none"}

\* ------------------------------------------------------------ AuthContext
isAuthenticated == user # Null
isAdmin == user # Null /\ UserIsAdmin(user)

CommonScreens == {"ProductForm", "ProductList", "StockList", "Register", "Sales",
                  "SalesSummary", "CreateAdmin", "CustomListDisplay", "CustomListForm"}

\* AppNavigator as it would be if the tabs were registered for every user
AppNavigator_TabsForAll ==
    IF authLoading THEN {}
    ELSE IF user # Null
         THEN (IF ~isAdmin THEN {"TabNavigator"} ELSE {"TabNavigator", "Home"})
              \cup CommonScreens
         ELSE {"Login"}

\* The screens AppNavigator registers in the current state ({} is `return null`)
AppNavigator ==
    IF authLoading THEN {}
    ELSE IF user # Null
         THEN (IF ~isAdmin THEN {"TabNavigator"} ELSE {"Home"}) \cup CommonScreens
         ELSE {"Login"}

LoginShown == AppNavigator = {"Login"}
AuthenticatedShown == AppNavigator # {} /\ "Login" \notin AppNavigator

InitAuth ==
    /\ storedToken = Null
    /\ storedUser = Null
    /\ user = Null
    /\ authLoading = TRUE
    /\ loadPc = "getUser"
    /\ loadedUser = Null
    /\ calls = [i \in Slots |-> NoCall]
    /\ signOutPc = "idle"
    /\ loginLoading = FALSE
    /\ loginError = ""
    /\ restarts = 0
    /\ signedOut = "no"
    /\ cleared401 = FALSE

\* The AuthContext a screen sees once u has signed in
SignedInAs(u) ==
    /\ storedToken = TokenOf(u)
    /\ storedUser = JSONstringify(u)
    /\ user = u
    /\ authLoading = FALSE
    /\ loadPc = "done"
    /\ loadedUser = Null
    /\ calls = [i \in Slots |-> NoCall]
    /\ signOutPc = "idle"
    /\ loginLoading = FALSE
    /\ loginError = ""
    /\ restarts = 0
    /\ signedOut = "no"
    /\ cleared401 = FALSE

\* loadStoredData: the first getItem resolves (or rejects: catch, finally;
\* loadPc "failed" records that the catch ran)
loadStoredDataUser ==
    /\ mounted = "App"
    /\ loadPc = "getUser"
    /\ \/ /\ loadedUser' = storedUser
          /\ loadPc' = "getToken"
          /\ UNCHANGED authLoading
       \/ /\ loadPc' = "failed"
          /\ authLoading' = FALSE
          /\ UNCHANGED loadedUser
    /\ UNCHANGED <<mounted, notAuth, storedToken, storedUser, user, calls, signOutPc, loginLoading, loginError, restarts, signedOut, cleared401>>

\* loadStoredData as it would be if a stored user alone were enough
loadStoredDataRestores_UserOnly(su, st) == Truthy(su)

\* if (storedUser && storedToken)
loadStoredDataRestores(su, st) == Truthy(su) /\ Truthy(st)

\* loadStoredData: the second getItem resolves (or rejects), then finally;
\* the local storedUser goes out of scope
loadStoredDataToken ==
    /\ mounted = "App"
    /\ loadPc = "getToken"
    /\ \/ /\ user' = IF loadStoredDataRestores(loadedUser, storedToken)
                     THEN JSONparse(loadedUser) ELSE user
          /\ loadPc' = "done"
       \/ /\ UNCHANGED user
          /\ loadPc' = "failed"
    /\ authLoading' = FALSE
    /\ loadedUser' = Null
    /\ UNCHANGED <<mounted, notAuth, storedToken, storedUser, calls, signOutPc, loginLoading, loginError, restarts, signedOut, cleared401>>

\* ------------------------------------------------- LoginScreen.handleLogin
\* if (!email || !password)
handleLoginValid(e, p) == Truthy(e) /\ Truthy(p)

\* <Button onPress={handleLogin} disabled={loading}>
loginButtonEnabled == ~loginLoading

LowestFree == CHOOSE i \in FreeSlots : \A j \in FreeSlots : i <= j

\* handleLogin on the typed email e and password p, up to `await signIn(...)`: signIn calls login, which calls
\* api.post, whose request interceptor awaits the stored token
handleLogin(e, p) ==
    /\ mounted = "App"
    /\ LoginShown
    /\ loginButtonEnabled
    /\ IF ~handleLoginValid(e, p)
       THEN /\ loginError' = "Por favor, preencha todos os campos"
            /\ UNCHANGED <<calls, loginLoading, signedOut, cleared401>>
       ELSE /\ FreeSlots # {}
            /\ calls' = [calls EXCEPT ![LowestFree] =
                           [kind |-> "login", pc |-> "intercept", hdr |-> <<>>, u |-> Null]]
            /\ loginLoading' = TRUE
            /\ loginError' = ""
            /\ signedOut' = "no"
            /\ cleared401' = FALSE
    /\ UNCHANGED <<mounted, notAuth, storedToken, storedUser, user, authLoading, loadPc, loadedUser,
                   signOutPc, restarts>>

\* --------------------------------------------------------- shared api client
\* Any authenticated screen issues a request (fetch or mutation)
dataRequest ==
    /\ mounted = "App"
    /\ AuthenticatedShown
    /\ FreeSlots # {}
    /\ calls' = [calls EXCEPT ![LowestFree] =
                    [kind |-> "data", pc |-> "intercept", hdr |-> <<>>, u |-> Null]]
    /\ UNCHANGED <<mounted, notAuth, storedToken, storedUser, user, authLoading, loadPc, loadedUser,
                   signOutPc, loginLoading, loginError, restarts,
                   signedOut, cleared401>>

\* `Bearer ${token}`
Bearer(token) == <<"Bearer", token>>

\* The request interceptor as it would be if it took the token of the
\* signed-in user held in memory instead of reading device storage
requestInterceptor_FromMemory(i) ==
    /\ mounted = "App"
    /\ calls[i].pc = "intercept"
    /\ calls' = [calls EXCEPT ![i].pc = "sent",
                              ![i].hdr = IF user # Null THEN Bearer(TokenOf(user)) ELSE <<>>]
    /\ UNCHANGED <<mounted, notAuth, storedToken, storedUser, user, authLoading, loadPc, loadedUser,
                   signOutPc, loginLoading, loginError, restarts,
                   signedOut, cleared401>>

\* api.interceptors.request: the token read resolves, the header is set
\* when the token is truthy, and the request leaves (hdr <<>>: no
\* Authorization header)
requestInterceptor(i) ==
    /\ mounted = "App"
    /\ calls[i].pc = "intercept"
    /\ calls' = [calls EXCEPT ![i].pc = "sent",
                              ![i].hdr = IF Truthy(storedToken) THEN Bearer(storedToken)
                                         ELSE <<>>]
    /\ UNCHANGED <<mounted, notAuth, storedToken, storedUser, user, authLoading, loadPc, loadedUser,
                   signOutPc, loginLoading, loginError, restarts,
                   signedOut, cleared401>>

\* The promise of call i rejects: the caller's catch and finally run.
\* handleLogin: setError(...), setLoading(false); other callers are the
\* screens' own handlers, modelled in their scenarios.
Rejected(i, message) ==
    /\ calls' = [calls EXCEPT ![i] = NoCall]
    /\ IF calls[i].kind = "login"
       THEN loginError' = message /\ loginLoading' = FALSE
       ELSE UNCHANGED <<loginError, loginLoading>>

\* The server answers call i with 2xx
respondOk(i) ==
    /\ mounted = "App"
    /\ calls[i].pc = "sent"
    /\ IF calls[i].kind = "login"
       THEN \E u \in Users : calls' = [calls EXCEPT ![i].pc = "setToken", ![i].u = u]
       ELSE calls' = [calls EXCEPT ![i] = NoCall]
    /\ UNCHANGED <<mounted, notAuth, storedToken, storedUser, user, authLoading, loadPc, loadedUser,
                   signOutPc, loginLoading, loginError, restarts,
                   signedOut, cleared401>>

\* The server answers call i with an error other than 401, or not at all:
\* the response interceptor rejects without touching storage
respondError(i) ==
    /\ mounted = "App"
    /\ calls[i].pc = "sent"
    /\ Rejected(i, "Erro ao fazer login. Verifique suas credenciais.")
    /\ UNCHANGED <<mounted, notAuth, storedToken, storedUser, user, authLoading, loadPc, loadedUser,
                   signOutPc, restarts, signedOut, cleared401>>

\* The server answers call i with 401: the response interceptor calls
\* AsyncStorage.removeItem(token)
respond401(i) ==
    /\ mounted = "App"
    /\ calls[i].pc = "sent"
    /\ calls' = [calls EXCEPT ![i].pc = "rmToken401"]
    /\ UNCHANGED <<mounted, notAuth, storedToken, storedUser, user, authLoading, loadPc, loadedUser,
                   signOutPc, loginLoading, loginError, restarts,
                   signedOut, cleared401>>

interceptor401Token(i) ==
    /\ mounted = "App"
    /\ calls[i].pc = "rmToken401"
    /\ storedToken' = Null
    /\ calls' = [calls EXCEPT ![i].pc = "rmUser401"]
    /\ UNCHANGED <<mounted, notAuth, storedUser, user, authLoading, loadPc, loadedUser,
                   signOutPc, loginLoading, loginError, restarts,
                   signedOut, cleared401>>

\* The end of the 401 branch as it would be if it left the user key in place
interceptor401User_KeepsUser(i) ==
    /\ mounted = "App"
    /\ calls[i].pc = "rmUser401"
    /\ cleared401' = TRUE
    /\ Rejected(i, "Email ou senha incorretos.")
    /\ UNCHANGED <<mounted, notAuth, storedToken, storedUser, user, authLoading, loadPc,
                   loadedUser, signOutPc, restarts, signedOut>>

\* removeItem(user) resolves; the interceptor returns Promise.reject(error).
\* It sets no state of AuthProvider and calls no navigation.
interceptor401User(i) ==
    /\ mounted = "App"
    /\ calls[i].pc = "rmUser401"
    /\ storedUser' = Null
    /\ cleared401' = TRUE
    /\ Rejected(i, "Email ou senha incorretos.")
    /\ UNCHANGED <<mounted, notAuth, storedToken, user, authLoading, loadPc, loadedUser,
                   signOutPc, restarts, signedOut>>

\* login as it would be if it returned without persisting the token
loginStoreToken_Skips(i) ==
    /\ mounted = "App"
    /\ calls[i].pc = "setToken"
    /\ calls' = [calls EXCEPT ![i].pc = "setUser"]
    /\ UNCHANGED <<mounted, notAuth, storedToken, storedUser, user, authLoading, loadPc,
                   loadedUser, signOutPc, loginLoading, loginError, restarts,
                   signedOut, cleared401>>

\* login: AsyncStorage.setItem(token) resolves, login returns {token, user};
\* signIn calls AsyncStorage.setItem(user)
loginStoreToken(i) ==
    /\ mounted = "App"
    /\ calls[i].pc = "setToken"
    /\ storedToken' = TokenOf(calls[i].u)
    /\ calls' = [calls EXCEPT ![i].pc = "setUser"]
    /\ UNCHANGED <<mounted, notAuth, storedUser, user, authLoading, loadPc, loadedUser,
                   signOutPc, loginLoading, loginError, restarts,
                   signedOut, cleared401>>

\* signIn: setItem(user) resolves, setUser(userData); handleLogin's finally
signIn(i) ==
    /\ mounted = "App"
    /\ calls[i].pc = "setUser"
    /\ storedUser' = JSONstringify(calls[i].u)
    /\ user' = calls[i].u
    /\ loginLoading' = FALSE
    /\ calls' = [calls EXCEPT ![i] = NoCall]
    /\ UNCHANGED <<mounted, notAuth, storedToken, authLoading, loadPc, loadedUser,
                   signOutPc, loginError, restarts,
                   signedOut, cleared401>>

\* ------------------------------------------------------------------ signOut
\* Header / HomeScreen logout alert, 'Sair': signOut calls removeItem(token)
signOutPress ==
    /\ mounted = "App"
    /\ AuthenticatedShown
    /\ signOutPc = "idle"
    /\ signOutPc' = "rmToken"
    /\ UNCHANGED <<mounted, notAuth, storedToken, storedUser, user, authLoading, loadPc, loadedUser,
                   calls, loginLoading, loginError, restarts,
                   signedOut, cleared401>>

\* removeItem(token) resolves and removeItem(user) is called, or it rejects (catch)
signOutToken ==
    /\ mounted = "App"
    /\ signOutPc = "rmToken"
    /\ \/ storedToken' = Null /\ signOutPc' = "rmUser"
       \/ signOutPc' = "idle" /\ UNCHANGED storedToken
    /\ UNCHANGED <<mounted, notAuth, storedUser, user, authLoading, loadPc, loadedUser,
                   calls, loginLoading, loginError, restarts,
                   signedOut, cleared401>>

\* signOut as it would be without the second removeItem: the user record stays
signOut_KeepsUserRecord ==
    /\ mounted = "App"
    /\ signOutPc = "rmUser"
    /\ signOutPc' = "idle"
    /\ user' = Null
    /\ signedOut' = "yes"
    /\ loginLoading' = FALSE /\ loginError' = ""
    /\ UNCHANGED <<mounted, notAuth, storedToken, storedUser, authLoading, loadPc, loadedUser,
                   calls, restarts, cleared401>>

\* removeItem(user) resolves and setUser(null) runs, or it rejects (catch)
signOut ==
    /\ mounted = "App"
    /\ signOutPc = "rmUser"
    /\ signOutPc' = "idle"
    /\ \/ /\ storedUser' = Null
          /\ user' = Null
          /\ signedOut' = "yes"
          /\ loginLoading' = FALSE /\ loginError' = ""
       \/ UNCHANGED <<storedUser, user, signedOut, loginLoading, loginError>>
    /\ UNCHANGED <<mounted, notAuth, storedToken, authLoading, loadPc, loadedUser,
                   calls, restarts, cleared401>>

\* ---------------------------------------------------------------- app start
\* The process is killed and started again: device storage stays, the
\* components are constructed anew and pending continuations are gone.
appRestart ==
    /\ mounted = "App"
    /\ restarts < MaxRestarts
    /\ restarts' = restarts + 1
    /\ user' = Null
    /\ authLoading' = TRUE
    /\ loadPc' = "getUser"
    /\ loadedUser' = Null
    /\ calls' = [i \in Slots |-> NoCall]
    /\ signOutPc' = "idle"
    /\ loginLoading' = FALSE /\ loginError' = ""
    /\ signedOut' = IF signedOut = "yes" THEN "restarted" ELSE signedOut
    /\ UNCHANGED <<mounted, notAuth, storedToken, storedUser, cleared401>>

\* C12: a request leaves with the header Authorization: Bearer <token> of
\* the token device storage holds at that moment, and without the header
\* when storage holds none; the header is not changed afterwards.
C12_HeaderFromStorage ==
    [][\A i \in Slots :
          /\ (calls[i].pc = "intercept" /\ calls'[i].pc = "sent") =>
                calls'[i].hdr = IF storedToken = Null THEN <<>> ELSE Bearer(storedToken)
          /\ (calls[i].pc = "intercept" /\ calls'[i].pc = "sent") => storedToken' = storedToken
          /\ (calls[i].pc # "intercept" /\ calls'[i].pc # "idle") =>
                calls'[i].hdr = calls[i].hdr]_vars

\* C12 witness: one request left with the stored token, then signOut removed
\* the token and a second request of the still signed-in user left without
\* a header
C12_Witness ==
    \E i, j \in Slots :
        /\ calls[i].pc = "sent" /\ calls[i].hdr = Bearer(TokenOf(user))
        /\ calls[j].pc = "sent" /\ calls[j].kind = "data" /\ calls[j].hdr = <<>>
        /\ user # Null /\ storedToken = Null

\* ------------------------------------------------------- ProductFormScreen
InitPf ==
    /\ pfVersion \in {"category", "plain"}
    /\ pfName = ""
    /\ pfDescription = ""
    /\ pfPrice = ""
    /\ pfQuantity = ""
    /\ pfCategory = ""
    /\ pfLoading = FALSE
    /\ pfError = ""
    /\ pfInFlight = 0
    /\ pfMounted = TRUE
    /\ pfLast = "none"

IdlePf == InitPf /\ pfVersion = "category"

\* ------------------------------------------------------- ProductListScreen
ProductIds == {"p1", "p2", "p3"}

\* The server's record of product id.  p2 is a product stored before
\* categories existed.
Product(id) ==
    [_id |-> id,
     name |-> "a",
     description |-> "a",
     price |-> 10,
     quantity |-> 1,
     category |-> IF id = "p1" THEN "masculino" ELSE ""]

ProductValues == {Product(id) : id \in ProductIds}

\* Product lists a response can carry: distinct ids, at most MaxProducts entries
ProductLists ==
    {l \in UNION {[1..n -> ProductValues] : n \in 0..MaxProducts} :
        \A i, j \in DOMAIN l : i # j => l[i]._id # l[j]._id}

NoReq == [kind |-> "none", id |-> Null, captured |-> <<>>]
PlSlots == 1..MaxInFlight
PlFree == {i \in PlSlots : plReqs[i].kind = "none"}
PlLowestFree == CHOOSE i \in PlFree : \A j \in PlFree : i <= j

EmptyEditForm == [name |-> "", description |-> "", price |-> "", quantity |-> "", category |-> ""]

\* useState initial values; the mount effect has called loadProducts, which
\* set loading (already true) and awaits api.get
InitPl ==
    /\ plListId \in {Null, "l1"}
    /\ plProducts = <<>>
    /\ plLoading = TRUE
    /\ plRefreshing = FALSE
    /\ plError = ""
    /\ plEditModalVisible = FALSE
    /\ plSelectedProduct = Null
    /\ plEditForm = EmptyEditForm
    /\ plReqs = [i \in PlSlots |-> IF i = 1 THEN [NoReq EXCEPT !.kind = "load"] ELSE NoReq]
    /\ plReturned = <<>>
    /\ plAfterLoad = FALSE
    /\ plMounted = TRUE

IdlePl == InitPl /\ plListId = Null

\* ------------------------------------------------------- SalesSummaryScreen
\* Sale records as GET /api/sales/summary returns them.  Amounts are cents.
\* A return is recorded as a line of quantity -1 and a negative total.  The
\* fields _id, userName, createdAt and the lines' name are copied through by
\* fetchSales and are left out.
SaleUserIds == {"u1", "u2"}
SaleTotals == {0, 100}
SaleCommissions == {0, 50}
SaleLines == [productId : {"p1", "p2"}, quantity : {-1, 1, 2}, price : {100, 250}]

SeqsUpTo(S, n) == UNION {[1..k -> S] : k \in 0..n}

RawSales(lineLists, totals) ==
    [userId : SaleUserIds, products : lineLists, total : totals, commission : SaleCommissions]

\* The records the formatting is studied on
SaleRecords == RawSales(SeqsUpTo(SaleLines, MaxLines), SaleTotals \cup {-100})

\* The records the server of the summary screen holds: no line, one line, or
\* the same product sold twice in one sale
ServerLine == [productId |-> "p1", quantity |-> 1, price |-> 100]
ServerSales == RawSales({<<>>, <<ServerLine>>, <<ServerLine, ServerLine>>}, SaleTotals)

\* Position of productId's entry in acc, 0 when acc has none (!acc[key])
AccIndex(acc, productId) ==
    IF \E k \in DOMAIN acc : acc[k].productId = productId
    THEN CHOOSE k \in DOMAIN acc : acc[k].productId = productId
    ELSE 0

\* sale.products.reduce(...): the accumulator object is kept as the sequence
\* of its values in insertion order, which is what Object.values yields
RECURSIVE groupedProducts_Overwrites(_)
groupedProducts_Overwrites(products) ==
    IF products = <<>> THEN <<>>
    ELSE LET acc == groupedProducts_Overwrites(SubSeq(products, 1, Len(products) - 1))
             product == products[Len(products)]
             k == AccIndex(acc, product.productId)
         IN  IF k = 0
             THEN Append(acc, [productId |-> product.productId,
                               quantity |-> 0 + product.quantity,
                               price |-> product.price,
                               subtotal |-> 0 + product.quantity * product.price])
             ELSE [acc EXCEPT ![k].quantity = product.quantity,
                              ![k].subtotal = product.quantity * product.price]

RECURSIVE groupedProducts(_)
groupedProducts(products) ==
    IF products = <<>> THEN <<>>
    ELSE LET acc == groupedProducts(SubSeq(products, 1, Len(products) - 1))
             product == products[Len(products)]
             k == AccIndex(acc, product.productId)
         IN  IF k = 0
             THEN Append(acc, [productId |-> product.productId,
                               quantity |-> 0 + product.quantity,
                               price |-> product.price,
                               subtotal |-> 0 + product.quantity * product.price])
             ELSE [acc EXCEPT ![k].quantity = @ + product.quantity,
                              ![k].subtotal = @ + product.quantity * product.price]

\* Number((total * 0.3).toFixed(2)) on cents: 30% rounded to the nearest cent
\* (toFixed rounds the magnitude)
Round30(total) ==
    IF total >= 0 THEN (3 * total + 5) \div 10 ELSE -((3 * (-total) + 5) \div 10)

\* Number(sale.total) || 0 on a numeric total
NumberOrZero(n) == IF n # 0 THEN n ELSE 0

\* The callback of response.map in fetchSales
formatSale(sale) ==
    LET total == NumberOrZero(sale.total)
        commission == IF sale.commission # 0 THEN sale.commission ELSE Round30(total)
    IN  [userId |-> sale.userId,
         products |-> groupedProducts(sale.products),
         total |-> total,
         commission |-> commission]

\* useState initial values; the mount effect of an administrator has called
\* fetchSales, which awaits getSalesSummary
InitSs ==
    /\ srvSales = <<>>
    /\ ssSales = <<>>
    /\ ssLoading = TRUE
    /\ ssError = Null
    /\ ssInFlight = TRUE
    /\ ssFetched = <<>>

IdleSs == InitSs

IdleFs == fsSale = Null /\ fsFormatted = <<>> /\ fsProduct = <<>> /\ fsWithCommission = <<>>

\* ---------------------------------------------------------- StockListScreen
\* What GET /products and GET /users answer on this screen
SlProductIds == <<"p1">>
SlUserIds == <<"admin", "seller">>

\* A user as GET /users returns it
SlUser(id) == [_id |-> id, isAdmin |-> UserIsAdmin(id)]
SlUsers == [k \in DOMAIN SlUserIds |-> SlUser(SlUserIds[k])]
ListNames == {"", " ", "a"}

\* String.prototype.trim on the names above
Trim(name) == IF name = " " THEN "" ELSE name

SlNoReq == [kind |-> "none", body |-> Null]
SlSlots == 1..MaxInFlight
SlFree == {i \in SlSlots : slReqs[i].kind = "none"}
SlLowestFree == CHOOSE i \in SlFree : \A j \in SlFree : i <= j

\* useState initial values; the mount effect has called loadLists and
\* loadData, which await their requests
InitSl ==
    /\ srvLists = <<>>
    /\ slLists = <<>>
    /\ slLoading = TRUE
    /\ slRefreshing = FALSE
    /\ slError = ""
    /\ slCreateModalVisible = FALSE
    /\ slNewListName = ""
    /\ slProducts = <<>>
    /\ slUsers = <<>>
    /\ slSelectedProducts = <<>>
    /\ slSelectedUsers = <<>>
    /\ slReqs = [i \in SlSlots |->
                    IF i = 1 THEN [SlNoReq EXCEPT !.kind = "lists"]
                    ELSE IF i = 2 THEN [SlNoReq EXCEPT !.kind = "data"]
                    ELSE SlNoReq]
    /\ slMounted = TRUE

IdleSl == InitSl

\* ------------------------------------------------------ CustomListFormScreen
\* What getProducts and getAllUsers answer on this screen
ClProductIds == <<"p1", "p2">>
ClUsersData == <<SlUser("admin"), SlUser("seller"), [_id |-> "seller2", isAdmin |-> FALSE]>>

\* useState initial values; the mount effect has called loadData, which
\* awaits its requests
InitCl ==
    /\ clName = ""
    /\ clProducts = <<>>
    /\ clUsers = <<>>
    /\ clSelectedProducts = <<>>
    /\ clSelectedUsers = <<>>
    /\ clLoading = FALSE
    /\ clDataLoading = TRUE
    /\ clError = ""
    /\ clPosts = <<>>

IdleCl == InitCl

\* -------------------------------------------------------------- SalesScreen
\* What GET /api/products answers on this screen: p1 carries no commission
SaProductIds == {"p1", "p2"}
SaCatalogue ==
    <<[_id |-> "p1", price |-> 100, commission |-> 0],
      [_id |-> "p2", price |-> 250, commission |-> 50]>>

\* The callback of response.data.map in loadProducts as it would be if it
\* always computed the commission from the price
withCommission_Always30(product) ==
    [product EXCEPT !.commission = (product.price * 3) \div 10]

\* The callback of response.data.map in loadProducts:
\* commission: product.commission || (product.price * 0.3).  Prices are
\* whole tens of cents, so that 30% of a price is a whole number of cents;
\* a commission the server leaves out is the commission 0 (`||` treats
\* both alike).
withCommission(product) ==
    [product EXCEPT !.commission = IF @ # 0 THEN @ ELSE (product.price * 3) \div 10]

\* The sale of another seller the server holds from the start; GET /api/sales
\* returns it as well
OtherSale ==
    [userId |-> "other", products |-> <<[productId |-> "p1", quantity |-> 1]>>, total |-> 100]

\* A request in flight: what it asks for, for a POST what handleQuantityChange
\* captured before its await, for a GET /api/sales the number of records the
\* server held when it was sent
SaReq(kind) == [kind |-> kind, productId |-> Null, increment |-> FALSE, currentQuantity |-> 0,
                price |-> 0, since |-> 0]
SaInFlight == BagToSet(saReqs)
SaSend(sent, done) == (saReqs (-) SetToBag(done)) (+) SetToBag(sent)
SaRoomFor(k) == BagCardinality(saReqs) + k <= MaxInFlight

NoResponse == [since |-> -1, n |-> -1]

\* useState initial values; the mount effect has called loadProducts and
\* loadSales, which await their requests
InitSa ==
    /\ srvSaleLog = <<OtherSale>>
    /\ saProducts = <<>>
    /\ saSales = [id \in SaProductIds |-> 0]
    /\ saAllSales = <<>>
    /\ saLoading = TRUE
    /\ saProcessingProduct = Null
    /\ saSuccess = ""
    /\ saError = ""
    /\ saReqs = SetToBag({SaReq("products"), [SaReq("sales") EXCEPT !.since = 1]})
    /\ saLast = NoResponse
    /\ saOvertaken = FALSE
    /\ saReturned = <<>>

IdleSa == InitSa

\* --------------------------------------------------------------- HomeScreen
\* What GET /products answers on this screen: the fields the screen's logic
\* reads are _id and category
HsProduct(id) ==
    [_id |-> id, category |-> IF id = "p2" THEN "feminino" ELSE "masculino"]

HsProductLists ==
    {l \in UNION {[1..n -> {HsProduct(id) : id \in ProductIds}] : n \in 0..MaxProducts} :
        \A i, j \in DOMAIN l : i # j => l[i]._id # l[j]._id}

\* The filter buttons
HsFilters == {"all"} \cup Categories

\* useState initial values, after the effects of the first render: the filter
\* effect copied the empty products, the mount effect called loadProducts,
\* which awaits api.get
InitHs ==
    /\ hsProducts = <<>>
    /\ hsFilteredProducts = <<>>
    /\ hsSelectedCategory = "all"
    /\ hsLoading = TRUE
    /\ hsRefreshing = FALSE
    /\ hsError = ""
    /\ hsReqs = SetToBag({"load"})
    /\ hsFilterPending = FALSE
    /\ hsSent = 1
    /\ hsTriggers = 1

IdleHs == InitHs

\* --------------------------------------------------------------- navigation
\* The scenarios of one screen do not navigate
IdleNav == navStack = <<>> /\ navTab = "HomeTab"

IdleOther == IdleSs /\ IdleFs /\ IdleSl /\ IdleSa /\ IdleHs /\ IdleNav /\ IdleCl

InitApp == mounted = "App" /\ InitAuth /\ IdlePf /\ IdlePl /\ IdleOther

NextApp ==
    \/ loadStoredDataUser
    \/ loadStoredDataToken
    \/ \E e, p \in FieldValues : handleLogin(e, p)
    \/ dataRequest
    \/ \E i \in Slots : requestInterceptor(i)
    \/ \E i \in Slots : respondOk(i)
    \/ \E i \in Slots : respondError(i)
    \/ \E i \in Slots : respond401(i)
    \/ \E i \in Slots : interceptor401Token(i)
    \/ \E i \in Slots : interceptor401User(i)
    \/ \E i \in Slots : loginStoreToken(i)
    \/ \E i \in Slots : signIn(i)
    \/ signOutPress
    \/ signOutToken
    \/ signOut
    \/ appRestart

SpecApp == InitApp /\ [][NextApp]_vars

\* C1: once signOut has completed and no sign-in was started since, the
\* token and the user record are absent from device storage and the
\* in-memory user is null, also after the next app start; whenever the
\* navigator renders (auth loading over) it registers Login and nothing else.
C1_SignOutClears ==
    signedOut # "no" =>
        /\ storedToken = Null
        /\ storedUser = Null
        /\ user = Null
        /\ (~authLoading => LoginShown)

\* C1 witness: signOut completed, the app was started again, loadStoredData
\* has finished and the navigator has rendered
C1_Witness == signedOut = "restarted" /\ loadPc = "done" /\ ~authLoading

\* C2: after a 401 cleared the stored credentials, the navigator's render
\* shows the Login screen and no authenticated screen.
C2_LoginAfter401 == (cleared401 /\ ~authLoading) => LoginShown

\* The caller's catch branch ran for call i in this step
CatchRan(i) ==
    /\ calls'[i] = NoCall
    /\ calls[i].kind = "login" => (Truthy(loginError') /\ ~loginLoading')

\* C20: for a response with status 401 the interceptor, unless the app is
\* terminated meanwhile, removes the token key, then the user key, and then
\* rejects, so that the caller's catch branch runs (a call answered 401
\* never takes its success path); when a call is
\* rejected for any other status or for want of a response, the token key and
\* the user key are left as they were.
C20_Interceptor401 ==
    /\ [][restarts' = restarts => \A i \in Slots :
            /\ (calls[i].pc = "sent" /\ calls'[i].pc = "rmToken401") =>
                  (storedToken' = storedToken /\ storedUser' = storedUser)
            /\ (calls[i].pc = "rmToken401" /\ calls'[i] # calls[i]) =>
                  (storedToken' = Null /\ calls'[i].pc = "rmUser401")
            /\ (calls[i].pc = "rmUser401" /\ calls'[i] # calls[i]) =>
                  (storedUser' = Null /\ CatchRan(i))]_vars
    /\ [][\A i \in Slots : respondError(i) =>
            (storedToken' = storedToken /\ storedUser' = storedUser /\ CatchRan(i))]_vars

\* C20 witness: a signed-in user's request was answered 401 and rejected;
\* both keys are gone while the user is still held in memory
C20_Witness ==
    /\ cleared401
    /\ signedOut = "no"
    /\ user # Null
    /\ storedToken = Null
    /\ storedUser = Null
    /\ \A i \in Slots : calls[i] = NoCall

\* A 401 response has removed the token since the last press on Entrar, or
\* is between its two removals
Removal401 == cleared401 \/ \E j \in Slots : calls[j].pc = "rmUser401"

SpecAppStartup ==
    SpecApp /\ WF_vars(loadStoredDataUser) /\ WF_vars(loadStoredDataToken)

\* C22: when loadStoredData ends without a read error the in-memory user is
\* the stored user if both a stored user and a stored token are present, and
\* stays null otherwise; after a read error it stays null; in every case the
\* auth loading flag becomes false, and while it is true AppNavigator
\* renders nothing.
C22_RestoreOnStart ==
    /\ [][(authLoading /\ ~authLoading') =>
            /\ user = Null
            /\ loadPc' \in {"done", "failed"}
            /\ loadPc' = "failed" => user' = Null
            /\ loadPc' = "done" =>
                  IF Truthy(storedUser) /\ Truthy(storedToken)
                  THEN user' = JSONparse(storedUser)
                  ELSE user' = Null]_vars
    /\ [](authLoading => AppNavigator = {})
    /\ (authLoading ~> ~authLoading)

\* C22 witness: after a restart the user that was stored, token and all, is
\* restored and the authenticated screens are registered
C22_Witness ==
    /\ restarts > 0
    /\ loadPc = "done"
    /\ ~authLoading
    /\ user # Null
    /\ storedUser = JSONstringify(user)
    /\ Truthy(storedToken)
    /\ AuthenticatedShown

\* The screens that come first in a branch of AppNavigator
RootScreens == {"Login", "TabNavigator", "Home"}

\* C23: once auth loading is false AppNavigator registers exactly one of
\* Login, TabNavigator and Home: Login when the user is null, TabNavigator
\* when the user is not an administrator, Home when it is; Login is
\* registered with no other screen, and TabNavigator never with Home.
C23_OneRoot ==
    ~authLoading =>
        /\ AppNavigator \cap RootScreens =
              {IF user = Null THEN "Login"
               ELSE IF ~UserIsAdmin(user) THEN "TabNavigator" ELSE "Home"}
        /\ "Login" \in AppNavigator => AppNavigator = {"Login"}
        /\ ~({"TabNavigator", "Home"} \subseteq AppNavigator)

\* C23 witness: an administrator is signed in after a restart of the app;
\* Home is registered with the common screens
C23_Witness ==
    /\ ~authLoading
    /\ user = "admin"
    /\ signedOut = "no"
    /\ restarts > 0
    /\ AppNavigator = {"Home"} \cup CommonScreens

\* The TextInputs' onChangeText and the category buttons' onPress
pfSetName ==
    /\ mounted = "ProductForm" /\ pfMounted
    /\ \E v \in FieldValues : pfName' = v /\ v # pfName
    /\ UNCHANGED <<mounted, notPf, pfVersion, pfDescription, pfPrice, pfQuantity, pfCategory,
                   pfLoading, pfError, pfInFlight, pfMounted, pfLast>>

pfSetDescription ==
    /\ mounted = "ProductForm" /\ pfMounted
    /\ \E v \in FieldValues : pfDescription' = v /\ v # pfDescription
    /\ UNCHANGED <<mounted, notPf, pfVersion, pfName, pfPrice, pfQuantity, pfCategory,
                   pfLoading, pfError, pfInFlight, pfMounted, pfLast>>

pfSetPrice ==
    /\ mounted = "ProductForm" /\ pfMounted
    /\ \E v \in FieldValues : pfPrice' = v /\ v # pfPrice
    /\ UNCHANGED <<mounted, notPf, pfVersion, pfName, pfDescription, pfQuantity, pfCategory,
                   pfLoading, pfError, pfInFlight, pfMounted, pfLast>>

pfSetQuantity ==
    /\ mounted = "ProductForm" /\ pfMounted
    /\ \E v \in FieldValues : pfQuantity' = v /\ v # pfQuantity
    /\ UNCHANGED <<mounted, notPf, pfVersion, pfName, pfDescription, pfPrice, pfCategory,
                   pfLoading, pfError, pfInFlight, pfMounted, pfLast>>

pfSetCategory ==
    /\ mounted = "ProductForm" /\ pfMounted
    /\ pfVersion = "category"
    /\ \E v \in Categories : pfCategory' = v /\ v # pfCategory
    /\ UNCHANGED <<mounted, notPf, pfVersion, pfName, pfDescription, pfPrice, pfQuantity,
                   pfLoading, pfError, pfInFlight, pfMounted, pfLast>>

\* the validation as it would be with the quantity test left out
pfHandleSubmitValid_NoQuantity ==
    /\ Truthy(pfName)
    /\ Truthy(pfDescription)
    /\ Truthy(pfPrice)
    /\ (pfVersion = "category" => Truthy(pfCategory))

\* if (!name || !description || !price || !quantity [|| !category])
pfHandleSubmitValid ==
    /\ Truthy(pfName)
    /\ Truthy(pfDescription)
    /\ Truthy(pfPrice)
    /\ Truthy(pfQuantity)
    /\ (pfVersion = "category" => Truthy(pfCategory))

\* <Button onPress={handleSubmit} loading={loading} disabled={loading}>
pfSubmitEnabled == ~pfLoading

\* ProductFormScreen.handleSubmit up to `await api.post('/products', formData)`
pfHandleSubmit ==
    /\ mounted = "ProductForm" /\ pfMounted
    /\ pfSubmitEnabled
    /\ IF ~pfHandleSubmitValid
       THEN /\ pfError' = "Por favor, preencha todos os campos"
            /\ pfLast' = "blocked"
            /\ UNCHANGED <<pfLoading, pfInFlight>>
       ELSE /\ pfInFlight < MaxInFlight
            /\ pfLoading' = TRUE
            /\ pfError' = ""
            /\ pfInFlight' = pfInFlight + 1
            /\ pfLast' = "posted"
    /\ UNCHANGED <<mounted, notPf, pfVersion, pfName, pfDescription, pfPrice, pfQuantity,
                   pfCategory, pfMounted>>

\* The POST resolves: navigation.goBack(), then finally setLoading(false)
pfPostOk ==
    /\ mounted = "ProductForm"
    /\ pfInFlight > 0
    /\ pfInFlight' = pfInFlight - 1
    /\ pfMounted' = FALSE
    /\ pfLoading' = FALSE
    /\ UNCHANGED <<mounted, notPf, pfVersion, pfName, pfDescription, pfPrice, pfQuantity,
                   pfCategory, pfError, pfLast>>

\* The POST rejects: catch setError(...), then finally setLoading(false)
pfPostError ==
    /\ mounted = "ProductForm"
    /\ pfInFlight > 0
    /\ pfInFlight' = pfInFlight - 1
    /\ pfError' = "Erro ao cadastrar produto. Tente novamente."
    /\ pfLoading' = FALSE
    /\ UNCHANGED <<mounted, notPf, pfVersion, pfName, pfDescription, pfPrice, pfQuantity,
                   pfCategory, pfMounted, pfLast>>

\* Header back button: navigation.goBack()
pfGoBack ==
    /\ mounted = "ProductForm" /\ pfMounted
    /\ pfMounted' = FALSE
    /\ UNCHANGED <<mounted, notPf, pfVersion, pfName, pfDescription, pfPrice, pfQuantity,
                   pfCategory, pfLoading, pfError, pfInFlight, pfLast>>

InitProductForm ==
    mounted = "ProductForm" /\ SignedInAs("admin") /\ InitPf /\ IdlePl /\ IdleOther

NextProductForm ==
    \/ pfSetName
    \/ pfSetDescription
    \/ pfSetPrice
    \/ pfSetQuantity
    \/ pfSetCategory
    \/ pfHandleSubmit
    \/ pfPostOk
    \/ pfPostError
    \/ pfGoBack

SpecProductForm == InitProductForm /\ [][NextProductForm]_vars

\* The required fields of the create form, as the claim lists them
PfRequiredEmpty ==
    \/ pfName = ""
    \/ pfDescription = ""
    \/ pfPrice = ""
    \/ pfQuantity = ""
    \/ (pfVersion = "category" /\ pfCategory = "")

\* C3: a handleSubmit of the create form with a required field empty sends
\* no request, does not navigate, leaves loading false and sets the
\* validation message.
C3_EmptyFieldBlocksCreate ==
    [][(pfHandleSubmit /\ PfRequiredEmpty) =>
          /\ pfInFlight' = pfInFlight
          /\ pfMounted' = pfMounted
          /\ pfLoading' = FALSE
          /\ pfError' = "Por favor, preencha todos os campos"]_vars

\* C3 witness: a submit was blocked with a field still empty
C3_Witness ==
    /\ pfLast = "blocked"
    /\ PfRequiredEmpty
    /\ pfError = "Por favor, preencha todos os campos"
    /\ ~pfLoading
    /\ pfInFlight = 0
    /\ pfName # ""

\* ------------------------------------------- ProductListScreen: the actions
\* What the component returns: the spinner, or inside the ScrollView the
\* error text, the empty-state text or one Card per entry of products
PlRender ==
    IF plLoading /\ ~plRefreshing THEN "spinner"
    ELSE IF Truthy(plError) THEN "error"
    ELSE IF Len(plProducts) = 0 THEN "empty"
    ELSE "cards"

\* The keys of the Cards rendered, in order
PlCards == IF PlRender = "cards" THEN [i \in DOMAIN plProducts |-> plProducts[i]._id] ELSE <<>>

PlEnd(i) == [plReqs EXCEPT ![i] = NoReq]

\* setProducts(response.data.products || []) / setProducts(response.data)
PlEntries(resp) == IF plListId # Null /\ ~resp.hasProducts THEN <<>> ELSE resp.products

\* loadProducts as it would be without setError(''): an earlier error stays
\* on screen
plLoadOk_KeepsError(i) ==
    /\ mounted = "ProductList"
    /\ plReqs[i].kind = "load"
    /\ \E resp \in [hasProducts : BOOLEAN, products : ProductLists] :
          /\ (plListId = Null \/ resp.products = <<>>) => resp.hasProducts
          /\ plProducts' = PlEntries(resp)
          /\ plReturned' = IF resp.hasProducts THEN resp.products ELSE <<>>
    /\ plLoading' = FALSE
    /\ plRefreshing' = IF plReqs[i].id = "refresh" THEN FALSE ELSE plRefreshing
    /\ plReqs' = PlEnd(i)
    /\ plAfterLoad' = TRUE
    /\ UNCHANGED <<mounted, notPl, plMounted, plListId, plError, plEditModalVisible, plSelectedProduct,
                   plEditForm>>

\* loadProducts: api.get resolves; setProducts, setError(''), finally
\* setLoading(false); onRefresh then runs setRefreshing(false)
plLoadOk(i) ==
    /\ mounted = "ProductList"
    /\ plReqs[i].kind = "load"
    /\ \E resp \in [hasProducts : BOOLEAN, products : ProductLists] :
          /\ (plListId = Null \/ resp.products = <<>>) => resp.hasProducts
          /\ plProducts' = PlEntries(resp)
          /\ plReturned' = IF resp.hasProducts THEN resp.products ELSE <<>>
    /\ plError' = ""
    /\ plLoading' = FALSE
    /\ plRefreshing' = IF plReqs[i].id = "refresh" THEN FALSE ELSE plRefreshing
    /\ plReqs' = PlEnd(i)
    /\ plAfterLoad' = TRUE
    /\ UNCHANGED <<mounted, notPl, plMounted, plListId, plEditModalVisible, plSelectedProduct,
                   plEditForm>>

\* loadProducts as it would be with a mounted guard before its setters
plLoadError_Guarded(i) ==
    /\ mounted = "ProductList"
    /\ plReqs[i].kind = "load"
    /\ plError' = IF plMounted THEN "Erro ao carregar produtos. Por favor, tente novamente."
                  ELSE plError
    /\ plLoading' = IF plMounted THEN FALSE ELSE plLoading
    /\ plRefreshing' = IF plMounted /\ plReqs[i].id = "refresh" THEN FALSE ELSE plRefreshing
    /\ plReqs' = PlEnd(i)
    /\ plAfterLoad' = FALSE
    /\ plReturned' = <<>>
    /\ UNCHANGED <<mounted, notPl, plMounted, plListId, plProducts, plEditModalVisible,
                   plSelectedProduct, plEditForm>>

\* loadProducts: api.get rejects; setError(message), finally setLoading(false)
plLoadError(i) ==
    /\ mounted = "ProductList"
    /\ plReqs[i].kind = "load"
    /\ plError' = "Erro ao carregar produtos. Por favor, tente novamente."
    /\ plLoading' = FALSE
    /\ plRefreshing' = IF plReqs[i].id = "refresh" THEN FALSE ELSE plRefreshing
    /\ plReqs' = PlEnd(i)
    /\ plAfterLoad' = FALSE
    /\ plReturned' = <<>>
    /\ UNCHANGED <<mounted, notPl, plMounted, plListId, plProducts, plEditModalVisible,
                   plSelectedProduct, plEditForm>>

\* RefreshControl onRefresh (the control is part of the list view and does
\* not fire again while it is refreshing)
plOnRefresh ==
    /\ mounted = "ProductList"
    /\ plMounted
    /\ PlRender # "spinner"
    /\ ~plRefreshing
    /\ PlFree # {}
    /\ plRefreshing' = TRUE
    /\ plLoading' = TRUE
    /\ plReqs' = [plReqs EXCEPT ![PlLowestFree] = [NoReq EXCEPT !.kind = "load", !.id = "refresh"]]
    /\ plAfterLoad' = FALSE
    /\ plReturned' = <<>>
    /\ UNCHANGED <<mounted, notPl, plMounted, plListId, plProducts, plError, plEditModalVisible,
                   plSelectedProduct, plEditForm>>

\* price.toString() / quantity.toString(), and parseFloat / parseInt of the
\* form's text (NaN for text without a leading number)
NaN == -1
NumToString(n) == IF n = 10 THEN "10" ELSE IF n = 1 THEN "1" ELSE "NaN"
ParseNumber(t) == IF t = "10" THEN 10 ELSE IF t = "1" THEN 1 ELSE NaN

\* Editar on a card (admins only)
plHandleEditClick(k) ==
    /\ mounted = "ProductList"
    /\ plMounted
    /\ isAdmin
    /\ PlRender = "cards"
    /\ k \in DOMAIN plProducts
    /\ plSelectedProduct' = plProducts[k]._id
    /\ plEditForm' = [name |-> plProducts[k].name,
                      description |-> plProducts[k].description,
                      price |-> NumToString(plProducts[k].price),
                      quantity |-> NumToString(plProducts[k].quantity),
                      category |-> plProducts[k].category]
    /\ plEditModalVisible' = TRUE
    /\ UNCHANGED <<mounted, notPl, plMounted, plListId, plProducts, plLoading, plRefreshing, plError,
                   plReqs, plReturned, plAfterLoad>>

PlDialogShown == PlRender # "spinner" /\ plEditModalVisible

\* The edit Dialog's TextInputs and category buttons
plSetEditField(f, v) ==
    /\ mounted = "ProductList"
    /\ plMounted
    /\ PlDialogShown
    /\ plEditForm[f] # v
    /\ plEditForm' = [plEditForm EXCEPT ![f] = v]
    /\ UNCHANGED <<mounted, notPl, plMounted, plListId, plProducts, plLoading, plRefreshing, plError,
                   plEditModalVisible, plSelectedProduct, plReqs, plReturned, plAfterLoad>>

\* Dialog onDismiss / Cancelar
plEditCancel ==
    /\ mounted = "ProductList"
    /\ plMounted
    /\ PlDialogShown
    /\ plEditModalVisible' = FALSE
    /\ UNCHANGED <<mounted, notPl, plMounted, plListId, plProducts, plLoading, plRefreshing, plError,
                   plSelectedProduct, plEditForm, plReqs, plReturned, plAfterLoad>>

\* The body handleEditSubmit puts
PlEditBody ==
    [name |-> plEditForm.name,
     description |-> plEditForm.description,
     price |-> ParseNumber(plEditForm.price),
     quantity |-> ParseNumber(plEditForm.quantity),
     category |-> plEditForm.category]

\* handleEditSubmit sends the PUT whenever a product is selected
plEditSubmitSends == plSelectedProduct # Null

\* Salvar: handleEditSubmit up to `await api.put(...)`; the continuation
\* keeps the products of the render it was created in
plHandleEditSubmit ==
    /\ mounted = "ProductList"
    /\ plMounted
    /\ PlDialogShown
    /\ IF plEditSubmitSends
       THEN /\ PlFree # {}
            /\ plReqs' = [plReqs EXCEPT ![PlLowestFree] =
                            [kind |-> "put", id |-> plSelectedProduct,
                             captured |-> plProducts]]
       ELSE UNCHANGED plReqs
    /\ UNCHANGED <<mounted, notPl, plMounted, plListId, plProducts, plLoading, plRefreshing, plError,
                   plEditModalVisible, plSelectedProduct, plEditForm, plReturned, plAfterLoad>>

\* The PUT resolves with the server's record of the product, which replaces
\* that product in the products the handler was created with
plPutOk(i) ==
    /\ mounted = "ProductList"
    /\ plReqs[i].kind = "put"
    /\ plProducts' = [k \in DOMAIN plReqs[i].captured |->
                        IF plReqs[i].captured[k]._id = plReqs[i].id
                        THEN Product(plReqs[i].id) ELSE plReqs[i].captured[k]]
    /\ plEditModalVisible' = FALSE
    /\ plSelectedProduct' = Null
    /\ plReqs' = PlEnd(i)
    /\ plAfterLoad' = FALSE
    /\ plReturned' = <<>>
    /\ UNCHANGED <<mounted, notPl, plMounted, plListId, plLoading, plRefreshing, plError, plEditForm>>

\* The PUT rejects
plPutError(i) ==
    /\ mounted = "ProductList"
    /\ plReqs[i].kind = "put"
    /\ plError' = "Erro ao atualizar produto. Por favor, tente novamente."
    /\ plReqs' = PlEnd(i)
    /\ plAfterLoad' = FALSE
    /\ plReturned' = <<>>
    /\ UNCHANGED <<mounted, notPl, plMounted, plListId, plProducts, plLoading, plRefreshing,
                   plEditModalVisible, plSelectedProduct, plEditForm>>

\* Excluir on a card (admins only), confirmed in the alert: the onPress
\* handler up to `await api.delete(...)`; the continuation keeps the
\* products of the render it was created in
plHandleDeleteClick(k) ==
    /\ mounted = "ProductList"
    /\ plMounted
    /\ isAdmin
    /\ PlRender = "cards"
    /\ k \in DOMAIN plProducts
    /\ PlFree # {}
    /\ plReqs' = [plReqs EXCEPT ![PlLowestFree] =
                    [kind |-> "delete", id |-> plProducts[k]._id, captured |-> plProducts]]
    /\ UNCHANGED <<mounted, notPl, plMounted, plListId, plProducts, plLoading, plRefreshing,
                   plError, plEditModalVisible, plSelectedProduct, plEditForm, plReturned,
                   plAfterLoad>>

\* The DELETE resolves: setProducts(products.filter(p => p._id !== productId))
plDeleteOk(i) ==
    /\ mounted = "ProductList"
    /\ plReqs[i].kind = "delete"
    /\ plProducts' = LET Other(p) == p._id # plReqs[i].id
                     IN  SelectSeq(plReqs[i].captured, Other)
    /\ plReqs' = PlEnd(i)
    /\ plAfterLoad' = FALSE
    /\ plReturned' = <<>>
    /\ UNCHANGED <<mounted, notPl, plMounted, plListId, plLoading, plRefreshing, plError,
                   plEditModalVisible, plSelectedProduct, plEditForm>>

\* The delete handler as it would be if it removed the card before the
\* server answered and did not put it back
plDeleteError_RemovesCard(i) ==
    /\ mounted = "ProductList"
    /\ plReqs[i].kind = "delete"
    /\ plProducts' = LET Other(p) == p._id # plReqs[i].id
                     IN  SelectSeq(plReqs[i].captured, Other)
    /\ plError' = "Erro ao excluir produto. Por favor, tente novamente."
    /\ plReqs' = PlEnd(i)
    /\ plAfterLoad' = FALSE
    /\ plReturned' = <<>>
    /\ UNCHANGED <<mounted, notPl, plMounted, plListId, plLoading, plRefreshing,
                   plEditModalVisible, plSelectedProduct, plEditForm>>

\* The DELETE rejects: setError(message)
plDeleteError(i) ==
    /\ mounted = "ProductList"
    /\ plReqs[i].kind = "delete"
    /\ plError' = "Erro ao excluir produto. Por favor, tente novamente."
    /\ plReqs' = PlEnd(i)
    /\ plAfterLoad' = FALSE
    /\ plReturned' = <<>>
    /\ UNCHANGED <<mounted, notPl, plMounted, plListId, plProducts, plLoading, plRefreshing,
                   plEditModalVisible, plSelectedProduct, plEditForm>>

InitProductList ==
    /\ mounted = "ProductList"
    /\ \E u \in Users : SignedInAs(u)
    /\ IdlePf
    /\ IdleOther
    /\ InitPl

NextProductList ==
    \/ \E i \in PlSlots : plLoadOk(i)
    \/ \E i \in PlSlots : plLoadError(i)
    \/ plOnRefresh

SpecProductList == InitProductList /\ [][NextProductList]_vars

\* The edit dialog of an administrator, from the state a successful load left
InitProductEdit ==
    /\ mounted = "ProductList"
    /\ SignedInAs("admin")
    /\ IdlePf
    /\ IdleOther
    /\ plListId = Null
    /\ plProducts \in ProductLists \ {<<>>}
    /\ plLoading = FALSE
    /\ plRefreshing = FALSE
    /\ plError = ""
    /\ plEditModalVisible = FALSE
    /\ plSelectedProduct = Null
    /\ plEditForm = EmptyEditForm
    /\ plReqs = [i \in PlSlots |-> NoReq]
    /\ plReturned = <<>>
    /\ plAfterLoad = FALSE
    /\ plMounted = TRUE

NextProductEdit ==
    \/ \E k \in 1..MaxProducts : plHandleEditClick(k)
    \/ \E f \in {"name", "description"} : \E v \in FieldValues : plSetEditField(f, v)
    \/ \E v \in {"", "10"} : plSetEditField("price", v)
    \/ \E v \in {"", "1"} : plSetEditField("quantity", v)
    \/ \E v \in Categories : plSetEditField("category", v)
    \/ plEditCancel
    \/ plHandleEditSubmit
    \/ \E i \in PlSlots : plPutOk(i)
    \/ \E i \in PlSlots : plPutError(i)

SpecProductEdit == InitProductEdit /\ [][NextProductEdit]_vars

\* The required fields of the edit form, as the claim lists them
PlEditRequiredEmpty ==
    \E f \in {"name", "description", "price", "quantity", "category"} : plEditForm[f] = ""

\* C4: a handleEditSubmit with a required field of the edit form empty
\* sends no PUT and shows a validation message.
C4_EmptyFieldBlocksEdit ==
    [][(plHandleEditSubmit /\ PlEditRequiredEmpty) =>
          (plReqs' = plReqs /\ Truthy(plError'))]_vars

\* C5: after a successful loadProducts that nothing followed, the screen
\* renders one card per returned entry, in the order returned, and shows
\* the empty-state text only when no entry was returned.
C5_CardPerEntry ==
    plAfterLoad =>
        /\ PlCards = [i \in DOMAIN plReturned |-> plReturned[i]._id]
        /\ Len(PlCards) = Len(plReturned)
        /\ (PlRender = "empty" => Len(plReturned) = 0)
        /\ (Len(plReturned) = 0 => PlRender = "empty")

\* C5 witness: a load returned MaxProducts entries and they are on screen
C5_Witness == plAfterLoad /\ Len(plReturned) = MaxProducts /\ PlRender = "cards"

\* ------------------------------------------ SalesSummaryScreen: the actions
RECURSIVE Sum(_)
Sum(ns) == IF ns = <<>> THEN 0 ELSE Sum(SubSeq(ns, 1, Len(ns) - 1)) + ns[Len(ns)]

\* What the component returns
SsRender ==
    IF ssLoading THEN "spinner"
    ELSE IF ssError # Null THEN "error"
    ELSE IF Len(ssSales) = 0 THEN "empty"
    ELSE "list"

\* sales.reduce((acc, sale) => acc + sale.total, 0), as it would be if it
\* added up the lines' subtotals
totalVendas_FromLines ==
    Sum([i \in DOMAIN ssSales |->
            Sum([j \in DOMAIN ssSales[i].products |-> ssSales[i].products[j].subtotal])])

\* sales.reduce((acc, sale) => acc + sale.total, 0)
totalVendas == Sum([i \in DOMAIN ssSales |-> ssSales[i].total])

\* sales.reduce((acc, sale) => acc + sale.commission, 0)
totalComissoes == Sum([i \in DOMAIN ssSales |-> ssSales[i].commission])

\* Another seller's sale reaches the server
serverRecordsSale(r) ==
    /\ mounted = "SalesSummary"
    /\ Len(srvSales) < MaxSales
    /\ srvSales' = Append(srvSales, r)
    /\ UNCHANGED <<mounted, notSs, ssSales, ssLoading, ssError, ssInFlight, ssFetched>>

\* fetchSales: getSalesSummary resolves; the records are formatted and
\* stored, finally setLoading(false)
ssFetchOk ==
    /\ mounted = "SalesSummary"
    /\ ssInFlight
    /\ ssSales' = [i \in DOMAIN srvSales |-> formatSale(srvSales[i])]
    /\ ssFetched' = srvSales
    /\ ssLoading' = FALSE
    /\ ssInFlight' = FALSE
    /\ UNCHANGED <<mounted, notSs, srvSales, ssError>>

\* fetchSales: getSalesSummary rejects; catch sets the error, finally
\* setLoading(false)
ssFetchError ==
    /\ mounted = "SalesSummary"
    /\ ssInFlight
    /\ ssError' = "Erro ao carregar vendas"
    /\ ssLoading' = FALSE
    /\ ssInFlight' = FALSE
    /\ UNCHANGED <<mounted, notSs, srvSales, ssSales, ssFetched>>

\* RefreshControl onRefresh={fetchSales}; the control is part of the list
\* view only.  setLoading(true), setError(null), then the await
ssOnRefresh ==
    /\ mounted = "SalesSummary"
    /\ SsRender = "list"
    /\ ssLoading' = TRUE
    /\ ssError' = Null
    /\ ssInFlight' = TRUE
    /\ UNCHANGED <<mounted, notSs, srvSales, ssSales, ssFetched>>

InitSalesSummary ==
    /\ mounted = "SalesSummary"
    /\ SignedInAs("admin")
    /\ IdlePf
    /\ IdlePl
    /\ IdleHs
    /\ IdleNav
    /\ IdleCl
    /\ InitSs
    /\ IdleFs
    /\ IdleSl
    /\ IdleSa

NextSalesSummary ==
    \/ \E r \in ServerSales : serverRecordsSale(r)
    \/ ssFetchOk
    \/ ssFetchError
    \/ ssOnRefresh

SpecSalesSummary == InitSalesSummary /\ [][NextSalesSummary]_vars

\* The commission the screen attributes to a fetched record: the record's
\* own when it is not zero, otherwise 30% of its total
AttributedCommission(r) == IF r.commission # 0 THEN r.commission ELSE Round30(r.total)

\* C6: the overall sales total is the sum of total over the fetched records
\* and the overall commission total is the sum over the fetched records of
\* the commission attributed to each (its own, or 30% of its total when it
\* carries none), every record counted once whatever its product lines.
C6_TotalsOverRecords ==
    /\ totalVendas = Sum([i \in DOMAIN ssFetched |-> ssFetched[i].total])
    /\ totalComissoes = Sum([i \in DOMAIN ssFetched |-> AttributedCommission(ssFetched[i])])

\* C6 as stated: the overall commission total is the sum of the fetched
\* records' commission fields.
C6_TotalsOverFetchedFields ==
    /\ totalVendas = Sum([i \in DOMAIN ssFetched |-> ssFetched[i].total])
    /\ totalComissoes = Sum([i \in DOMAIN ssFetched |-> ssFetched[i].commission])

\* C6 witness: the list view shows MaxSales fetched records, one of them
\* with the same product on two lines, one of them without a commission
C6_Witness ==
    /\ SsRender = "list"
    /\ Len(ssFetched) = MaxSales
    /\ \E i \in DOMAIN ssFetched : Len(ssFetched[i].products) = 2
    /\ \E i \in DOMAIN ssFetched : ssFetched[i].commission = 0 /\ ssFetched[i].total # 0
    /\ totalVendas > 0

\* The reduce that groups the sales by user, after the first n sales: the
\* accumulator's entries in the order their keys were inserted
RECURSIVE groupedSalesUpTo(_)
groupedSalesUpTo(n) ==
    IF n = 0 THEN <<>>
    ELSE LET acc == groupedSalesUpTo(n - 1)
             sale == ssSales[n]
             withKey == IF \E k \in DOMAIN acc : acc[k].userId = sale.userId
                        THEN acc
                        ELSE Append(acc, [userId |-> sale.userId, sales |-> <<>>,
                                          totalValue |-> 0, totalCommission |-> 0])
         IN  [k \in DOMAIN withKey |->
                IF withKey[k].userId = sale.userId
                THEN [withKey[k] EXCEPT !.sales = Append(@, sale),
                                        !.totalValue = @ + sale.total,
                                        !.totalCommission = @ + sale.commission]
                ELSE withKey[k]]

\* Object.values(groupedSales)
groupedSales == groupedSalesUpTo(Len(ssSales))

\* Array.prototype.sort with (a, b) => b.totalValue - a.totalValue: stable,
\* the larger totalValue first
RECURSIVE SortByTotalValue(_)
SortByTotalValue(groups) ==
    IF groups = <<>> THEN <<>>
    ELSE LET front == SortByTotalValue(SubSeq(groups, 1, Len(groups) - 1))
             g == groups[Len(groups)]
             before == Cardinality({k \in DOMAIN front : front[k].totalValue >= g.totalValue})
         IN  SubSeq(front, 1, before) \o <<g>> \o SubSeq(front, before + 1, Len(front))

groupedSalesArray_Unsorted == groupedSales

groupedSalesArray == SortByTotalValue(groupedSales)

\* C19: the user groups partition the sales by userId (each group holds, in
\* order, exactly the sales of its userId, no two groups share a userId and
\* every sale's userId has a group), each group's totalValue and
\* totalCommission are the sums over its sales, the groups' totals add up to
\* totalVendas and totalComissoes, and the groups are listed in
\* non-increasing order of totalValue.
C19_GroupedByUser ==
    LET groups == groupedSalesArray
    IN  /\ \A k \in DOMAIN groups :
              LET Own(sale) == sale.userId = groups[k].userId
              IN  /\ groups[k].sales = SelectSeq(ssSales, Own)
                  /\ groups[k].sales # <<>>
                  /\ groups[k].totalValue =
                        Sum([j \in DOMAIN groups[k].sales |-> groups[k].sales[j].total])
                  /\ groups[k].totalCommission =
                        Sum([j \in DOMAIN groups[k].sales |-> groups[k].sales[j].commission])
        /\ \A k, l \in DOMAIN groups : groups[k].userId = groups[l].userId => k = l
        /\ \A i \in DOMAIN ssSales : \E k \in DOMAIN groups : groups[k].userId = ssSales[i].userId
        /\ Sum([k \in DOMAIN groups |-> Len(groups[k].sales)]) = Len(ssSales)
        /\ Sum([k \in DOMAIN groups |-> groups[k].totalValue]) = totalVendas
        /\ Sum([k \in DOMAIN groups |-> groups[k].totalCommission]) = totalComissoes
        /\ \A k \in 1..(Len(groups) - 1) : groups[k].totalValue >= groups[k + 1].totalValue

\* C19 witness: two users' sales are listed, and the user whose sale was
\* fetched second comes first because its total is the larger one
C19_Witness ==
    /\ SsRender = "list"
    /\ Len(groupedSalesArray) = 2
    /\ groupedSalesArray[1].totalValue > groupedSalesArray[2].totalValue
    /\ groupedSalesArray[1].userId = ssSales[Len(ssSales)].userId
    /\ groupedSalesArray[1].userId # ssSales[1].userId

\* ------------------------------------ fetchSales: the formatting of a record
fsFormat ==
    /\ mounted = "formatSale"
    /\ fsFormatted = <<>>
    /\ fsFormatted' = <<formatSale(fsSale)>>
    /\ UNCHANGED <<mounted, notFs, fsSale, fsProduct, fsWithCommission>>

InitFormatSale ==
    /\ mounted = "formatSale"
    /\ SignedInAs("admin")
    /\ IdlePf
    /\ IdlePl
    /\ IdleHs
    /\ IdleNav
    /\ IdleCl
    /\ IdleSs
    /\ IdleSl
    /\ IdleSa
    /\ fsSale \in SaleRecords
    /\ fsFormatted = <<>>
    /\ fsProduct = <<>>
    /\ fsWithCommission = <<>>

NextFormatSale == fsFormat

SpecFormatSale == InitFormatSale /\ [][NextFormatSale]_vars

\* The lines of the fetched record that carry productId
LinesOf(productId) == {j \in DOMAIN fsSale.products : fsSale.products[j].productId = productId}

RECURSIVE SumOver(_, _)
SumOver(S, f) ==
    IF S = {} THEN 0 ELSE LET x == CHOOSE x \in S : TRUE IN f[x] + SumOver(S \ {x}, f)

\* C7: the formatted record has exactly one line per distinct productId of
\* the fetched record; its quantity is the sum of the quantities of the
\* fetched lines of that product and its subtotal the sum of their
\* quantity*price; the total is the fetched total, and total and commission
\* are the ones the record gets whatever its lines are.
C7_MergePerProduct ==
    fsFormatted # <<>> =>
        LET out == fsFormatted[1].products
            in == fsSale.products
        IN  /\ \A a, b \in DOMAIN out : a # b => out[a].productId # out[b].productId
            /\ {out[a].productId : a \in DOMAIN out} = {in[j].productId : j \in DOMAIN in}
            /\ \A a \in DOMAIN out :
                  /\ out[a].quantity =
                        SumOver(LinesOf(out[a].productId), [j \in DOMAIN in |-> in[j].quantity])
                  /\ out[a].subtotal =
                        SumOver(LinesOf(out[a].productId),
                                [j \in DOMAIN in |-> in[j].quantity * in[j].price])
            /\ fsFormatted[1].total = fsSale.total
            /\ fsFormatted[1].commission = formatSale([fsSale EXCEPT !.products = <<>>]).commission
            /\ (fsSale.commission # 0 => fsFormatted[1].commission = fsSale.commission)

\* C7 witness: a record with two lines of one product at different prices
\* has been formatted into one line
C7_Witness ==
    /\ fsFormatted # <<>>
    /\ Len(fsSale.products) = 2
    /\ fsSale.products[1].productId = fsSale.products[2].productId
    /\ fsSale.products[1].price # fsSale.products[2].price
    /\ Len(fsFormatted[1].products) = 1

\* ------------------------------------------------ StockListScreen: the actions
\* if (loading) return the spinner view: nothing else of the screen is
\* rendered, the Portal with the dialog included
SlScreenShown == ~slLoading
SlDialogShown == SlScreenShown /\ slCreateModalVisible

\* prev.filter(id => id !== x)
Without(seq, x) == LET Keep(y) == y # x IN SelectSeq(seq, Keep)

Includes(seq, x) == \E k \in DOMAIN seq : seq[k] = x

\* prev.includes(x) ? prev.filter(...) : [...prev, x]
Toggle(seq, x) == IF Includes(seq, x) THEN Without(seq, x) ELSE Append(seq, x)

\* The user checkbox: prev.some(u => u._id === user._id)
\*   ? prev.filter(u => u._id !== user._id) : [...prev, user]
ToggleUser(prev, pressed) ==
    LET Other(u) == u._id # pressed._id
    IN  IF \E k \in DOMAIN prev : prev[k]._id = pressed._id
        THEN SelectSeq(prev, Other)
        ELSE Append(prev, pressed)

\* selectedUsers.map(user => user._id)
UserIdsOf(users) == [k \in DOMAIN users |-> users[k]._id]

\* The validations of handleCreateList, in the order of the code: the
\* message to show, or "" when the request is to be sent
SlValidation_NeedsUsers(name, products, users) ==
    IF Trim(name) = "" THEN "Please enter a list name"
    ELSE IF Len(products) = 0 \/ Len(users) = 0 THEN "Please select at least one product"
    ELSE ""

SlValidation(name, products, users) ==
    IF Trim(name) = "" THEN "Please enter a list name"
    ELSE IF Len(products) = 0 THEN "Please select at least one product"
    ELSE ""

SlPostsInFlight == {i \in SlSlots : slReqs[i].kind = "post"}

\* loadLists: api.get('/custom-lists') resolves; setLists, setError(''),
\* finally setLoading(false); onRefresh's finally then setRefreshing(false)
slLoadListsOk(i) ==
    /\ mounted = "StockList"
    /\ slReqs[i].kind \in {"lists", "refresh"}
    /\ slLists' = srvLists
    /\ slError' = ""
    /\ slLoading' = FALSE
    /\ slRefreshing' = IF slReqs[i].kind = "refresh" THEN FALSE ELSE slRefreshing
    /\ slReqs' = [slReqs EXCEPT ![i] = SlNoReq]
    /\ UNCHANGED <<mounted, notSl, slMounted, srvLists, slCreateModalVisible, slNewListName, slProducts,
                   slUsers, slSelectedProducts, slSelectedUsers>>

\* loadLists: the request rejects
slLoadListsError(i) ==
    /\ mounted = "StockList"
    /\ slReqs[i].kind \in {"lists", "refresh"}
    /\ slError' = "Failed to load lists"
    /\ slLoading' = FALSE
    /\ slRefreshing' = IF slReqs[i].kind = "refresh" THEN FALSE ELSE slRefreshing
    /\ slReqs' = [slReqs EXCEPT ![i] = SlNoReq]
    /\ UNCHANGED <<mounted, notSl, slMounted, srvLists, slLists, slCreateModalVisible, slNewListName,
                   slProducts, slUsers, slSelectedProducts, slSelectedUsers>>

\* loadData: both requests of Promise.all resolve; the administrators are
\* filtered out of the users
slLoadDataOk(i) ==
    /\ mounted = "StockList"
    /\ slReqs[i].kind = "data"
    /\ slProducts' = SlProductIds
    /\ slUsers' = LET Regular(u) == ~u.isAdmin IN SelectSeq(SlUsers, Regular)
    /\ slReqs' = [slReqs EXCEPT ![i] = SlNoReq]
    /\ UNCHANGED <<mounted, notSl, slMounted, srvLists, slLists, slLoading, slRefreshing, slError,
                   slCreateModalVisible, slNewListName, slSelectedProducts, slSelectedUsers>>

\* loadData: one of the two requests rejects
slLoadDataError(i) ==
    /\ mounted = "StockList"
    /\ slReqs[i].kind = "data"
    /\ slError' = "Failed to load data"
    /\ slReqs' = [slReqs EXCEPT ![i] = SlNoReq]
    /\ UNCHANGED <<mounted, notSl, slMounted, srvLists, slLists, slLoading, slRefreshing,
                   slCreateModalVisible, slNewListName, slProducts, slUsers,
                   slSelectedProducts, slSelectedUsers>>

\* onRefresh: setRefreshing(true), loadLists() with its setLoading(true)
slOnRefresh ==
    /\ mounted = "StockList"
    /\ slMounted
    /\ SlScreenShown
    /\ ~slRefreshing
    /\ SlFree # {}
    /\ slRefreshing' = TRUE
    /\ slLoading' = TRUE
    /\ slReqs' = [slReqs EXCEPT ![SlLowestFree] = [SlNoReq EXCEPT !.kind = "refresh"]]
    /\ UNCHANGED <<mounted, notSl, slMounted, srvLists, slLists, slError, slCreateModalVisible,
                   slNewListName, slProducts, slUsers, slSelectedProducts, slSelectedUsers>>

\* The Nova Lista button
slOpenCreate ==
    /\ mounted = "StockList"
    /\ slMounted
    /\ SlScreenShown
    /\ ~slCreateModalVisible
    /\ slCreateModalVisible' = TRUE
    /\ UNCHANGED <<mounted, notSl, slMounted, srvLists, slLists, slLoading, slRefreshing, slError,
                   slNewListName, slProducts, slUsers, slSelectedProducts, slSelectedUsers,
                   slReqs>>

\* Cancelar, or the dialog's onDismiss
slCancelCreate ==
    /\ mounted = "StockList"
    /\ slMounted
    /\ SlDialogShown
    /\ slCreateModalVisible' = FALSE
    /\ UNCHANGED <<mounted, notSl, slMounted, srvLists, slLists, slLoading, slRefreshing, slError,
                   slNewListName, slProducts, slUsers, slSelectedProducts, slSelectedUsers,
                   slReqs>>

slSetNewListName(v) ==
    /\ mounted = "StockList"
    /\ slMounted
    /\ SlDialogShown
    /\ slNewListName # v
    /\ slNewListName' = v
    /\ UNCHANGED <<mounted, notSl, slMounted, srvLists, slLists, slLoading, slRefreshing, slError,
                   slCreateModalVisible, slProducts, slUsers, slSelectedProducts,
                   slSelectedUsers, slReqs>>

\* The checkbox of the k-th product of the dialog
slToggleProduct(k) ==
    /\ mounted = "StockList"
    /\ slMounted
    /\ SlDialogShown
    /\ k \in DOMAIN slProducts
    /\ slSelectedProducts' = Toggle(slSelectedProducts, slProducts[k])
    /\ UNCHANGED <<mounted, notSl, slMounted, srvLists, slLists, slLoading, slRefreshing, slError,
                   slCreateModalVisible, slNewListName, slProducts, slUsers, slSelectedUsers,
                   slReqs>>

\* The checkbox of the k-th user of the dialog
slToggleUser(k) ==
    /\ mounted = "StockList"
    /\ slMounted
    /\ SlDialogShown
    /\ k \in DOMAIN slUsers
    /\ slSelectedUsers' = ToggleUser(slSelectedUsers, slUsers[k])
    /\ UNCHANGED <<mounted, notSl, slMounted, srvLists, slLists, slLoading, slRefreshing, slError,
                   slCreateModalVisible, slNewListName, slProducts, slUsers,
                   slSelectedProducts, slReqs>>

\* handleCreateList up to its await: the two validations, then api.post.
\* The Criar button has no disabled prop.
slHandleCreateList ==
    /\ mounted = "StockList"
    /\ slMounted
    /\ SlDialogShown
    /\ LET message == SlValidation(slNewListName, slSelectedProducts, slSelectedUsers)
       IN  IF message # ""
           THEN slError' = message /\ slReqs' = slReqs
           ELSE /\ SlFree # {}
                /\ slReqs' = [slReqs EXCEPT ![SlLowestFree] =
                                [kind |-> "post",
                                 body |-> [name |-> Trim(slNewListName),
                                           products |-> slSelectedProducts,
                                           sharedWith |-> UserIdsOf(slSelectedUsers)]]]
                /\ slError' = slError
    /\ UNCHANGED <<mounted, notSl, slMounted, srvLists, slLists, slLoading, slRefreshing,
                   slCreateModalVisible, slNewListName, slProducts, slUsers,
                   slSelectedProducts, slSelectedUsers>>

\* handleCreateList: the POST resolves, the server having stored the list;
\* the dialog is closed and cleared and loadLists() is called
slPostOk(i) ==
    /\ mounted = "StockList"
    /\ slReqs[i].kind = "post"
    /\ Len(srvLists) < MaxLists
    /\ srvLists' = Append(srvLists, slReqs[i].body)
    /\ slCreateModalVisible' = FALSE
    /\ slNewListName' = ""
    /\ slSelectedProducts' = <<>>
    /\ slSelectedUsers' = <<>>
    /\ slLoading' = TRUE
    /\ slReqs' = [slReqs EXCEPT ![i] = [SlNoReq EXCEPT !.kind = "lists"]]
    /\ UNCHANGED <<mounted, notSl, slMounted, slLists, slRefreshing, slError, slProducts, slUsers>>

\* handleCreateList: the POST rejects
slPostError(i) ==
    /\ mounted = "StockList"
    /\ slReqs[i].kind = "post"
    /\ slError' = "Failed to create list"
    /\ slReqs' = [slReqs EXCEPT ![i] = SlNoReq]
    /\ UNCHANGED <<mounted, notSl, slMounted, srvLists, slLists, slLoading, slRefreshing,
                   slCreateModalVisible, slNewListName, slProducts, slUsers,
                   slSelectedProducts, slSelectedUsers>>

InitStockList ==
    /\ mounted = "StockList"
    /\ SignedInAs("admin")
    /\ IdlePf
    /\ IdlePl
    /\ IdleHs
    /\ IdleNav
    /\ IdleCl
    /\ IdleSs
    /\ IdleFs
    /\ IdleSa
    /\ InitSl

NextStockList ==
    \/ \E i \in SlSlots : slLoadListsOk(i)
    \/ \E i \in SlSlots : slLoadListsError(i)
    \/ \E i \in SlSlots : slLoadDataOk(i)
    \/ \E i \in SlSlots : slLoadDataError(i)
    \/ slOnRefresh
    \/ slOpenCreate
    \/ slCancelCreate
    \/ \E v \in ListNames : slSetNewListName(v)
    \/ \E k \in 1..Len(SlProductIds) : slToggleProduct(k)
    \/ \E k \in 1..Len(SlUserIds) : slToggleUser(k)
    \/ slHandleCreateList
    \/ \E i \in SlSlots : slPostOk(i)
    \/ \E i \in SlSlots : slPostError(i)

SpecStockList == InitStockList /\ [][NextStockList]_vars

\* C8: the user cannot start a second submission from a screen while an
\* earlier one from it is in flight; for the create dialog of
\* StockListScreen: at most one POST /custom-lists is in flight.
C8_OneSubmissionInFlight == Cardinality(SlPostsInFlight) <= 1

\* ---------------------------------------------------- SalesScreen: the actions
\* salesResponse.data.filter(sale => sale.userId === user._id)
UserSales(data) == LET Mine(sale) == sale.userId = user IN SelectSeq(data, Mine)

\* loadSales: if (user?._id)
loadSalesSends == user # Null

\* The salesCount object loadSales builds as it would be if it counted one
\* per line item
SalesCount_Lines(userSales) ==
    [id \in SaProductIds |->
        Sum([i \in DOMAIN userSales |->
                Sum([j \in DOMAIN userSales[i].products |->
                        IF userSales[i].products[j].productId = id THEN 1 ELSE 0])])]

\* The salesCount object loadSales builds, read with `|| 0`
SalesCount(userSales) ==
    [id \in SaProductIds |->
        Sum([i \in DOMAIN userSales |->
                Sum([j \in DOMAIN userSales[i].products |->
                        IF userSales[i].products[j].productId = id
                        THEN userSales[i].products[j].quantity
                        ELSE 0])])]

\* products.find(p => p._id === productId): its position, 0 when absent
SaFind(productId) ==
    IF \E k \in DOMAIN saProducts : saProducts[k]._id = productId
    THEN CHOOSE k \in DOMAIN saProducts : saProducts[k]._id = productId
    ELSE 0

\* The row buttons: disabled={quantity === 0 || isProcessing} for -,
\* disabled={isProcessing} for +
SaButtonEnabled(productId, increment) ==
    /\ SaFind(productId) # 0
    /\ saProcessingProduct # productId
    /\ increment \/ saSales[productId] # 0

\* The code of handleQuantityChange after its try/catch/finally
SaExtraValidation(req, error) ==
    IF req.increment /\ req.price < 0
    THEN "Preco do produto nao pode ser negativo."
    ELSE IF ~req.increment /\ (req.currentQuantity <= 0 \/ req.price < 0)
    THEN "Nao e possivel devolver mais do que foi vendido ou preco negativo."
    ELSE error

\* The number of POST /api/sales for productId in flight
SaPostsInFlight(productId) ==
    LET posts == {r \in SaInFlight : r.kind = "post" /\ r.productId = productId}
    IN  IF posts = {} THEN 0 ELSE BagCardinality([r \in posts |-> CopiesIn(r, saReqs)])

\* loadProducts: the request resolves; every product gets a commission,
\* finally setLoading(false)
saLoadProductsOk(r) ==
    /\ mounted = "Sales"
    /\ r \in SaInFlight
    /\ r.kind = "products"
    /\ saProducts' = [k \in DOMAIN SaCatalogue |-> withCommission(SaCatalogue[k])]
    /\ saLoading' = FALSE
    /\ saReqs' = SaSend({}, {r})
    /\ UNCHANGED <<mounted, notSa, srvSaleLog, saSales, saAllSales, saProcessingProduct,
                   saSuccess, saError, saLast, saOvertaken, saReturned>>

\* loadProducts: the request rejects
saLoadProductsError(r) ==
    /\ mounted = "Sales"
    /\ r \in SaInFlight
    /\ r.kind = "products"
    /\ saError' = "Erro ao carregar produtos"
    /\ saLoading' = FALSE
    /\ saReqs' = SaSend({}, {r})
    /\ UNCHANGED <<mounted, notSa, srvSaleLog, saProducts, saSales, saAllSales,
                   saProcessingProduct, saSuccess, saLast, saOvertaken, saReturned>>

\* loadSales as it would be if a response carrying fewer records than the
\* one shown were dropped
saLoadSalesOk_KeepsNewer(r) ==
    /\ mounted = "Sales"
    /\ r \in SaInFlight
    /\ r.kind \in {"sales", "salesAfterPost"}
    /\ \E n \in r.since..Len(srvSaleLog) :
          LET userSales == UserSales(SubSeq(srvSaleLog, 1, n))
          IN  /\ saAllSales' = IF n < saLast.n THEN saAllSales ELSE userSales
              /\ saSales' = IF n < saLast.n THEN saSales ELSE SalesCount(userSales)
              /\ saLast' = [since |-> r.since, n |-> n]
              /\ saOvertaken' = (r.since < saLast.since /\ n < saLast.n)
    /\ IF r.kind = "salesAfterPost"
       THEN /\ saSuccess' = IF r.increment THEN "Venda registrada!"
                            ELSE "Devolucao registrada!"
            /\ saProcessingProduct' = Null
            /\ saError' = SaExtraValidation(r, saError)
       ELSE UNCHANGED <<saSuccess, saProcessingProduct, saError>>
    /\ saReqs' = SaSend({}, {r})
    /\ UNCHANGED <<mounted, notSa, srvSaleLog, saProducts, saLoading, saReturned>>

\* loadSales: the request resolves with the records the server held at some
\* moment between the sending and now; setAllSales, setSales.  When
\* handleQuantityChange awaited it: setSuccess, finally
\* setProcessingProduct(null), then the extra validation
saLoadSalesOk(r) ==
    /\ mounted = "Sales"
    /\ r \in SaInFlight
    /\ r.kind \in {"sales", "salesAfterPost"}
    /\ \E n \in r.since..Len(srvSaleLog) :
          LET userSales == UserSales(SubSeq(srvSaleLog, 1, n))
          IN  /\ saAllSales' = userSales
              /\ saSales' = SalesCount(userSales)
              /\ saLast' = [since |-> r.since, n |-> n]
              /\ saOvertaken' = (r.since < saLast.since /\ n < saLast.n)
    /\ IF r.kind = "salesAfterPost"
       THEN /\ saSuccess' = IF r.increment THEN "Venda registrada!"
                            ELSE "Devolucao registrada!"
            /\ saProcessingProduct' = Null
            /\ saError' = SaExtraValidation(r, saError)
       ELSE UNCHANGED <<saSuccess, saProcessingProduct, saError>>
    /\ saReqs' = SaSend({}, {r})
    /\ UNCHANGED <<mounted, notSa, srvSaleLog, saProducts, saLoading, saReturned>>

\* loadSales: the request rejects; the catch only logs
saLoadSalesError(r) ==
    /\ mounted = "Sales"
    /\ r \in SaInFlight
    /\ r.kind \in {"sales", "salesAfterPost"}
    /\ IF r.kind = "salesAfterPost"
       THEN /\ saSuccess' = IF r.increment THEN "Venda registrada!"
                            ELSE "Devolucao registrada!"
            /\ saProcessingProduct' = Null
            /\ saError' = SaExtraValidation(r, saError)
       ELSE UNCHANGED <<saSuccess, saProcessingProduct, saError>>
    /\ saReqs' = SaSend({}, {r})
    /\ UNCHANGED <<mounted, notSa, srvSaleLog, saProducts, saSales, saAllSales, saLoading,
                   saLast, saOvertaken, saReturned>>

\* RefreshControl onRefresh: loadProducts(); loadSales().  The control
\* shows refreshing={loading}
saOnRefresh ==
    /\ mounted = "Sales"
    /\ ~saLoading
    /\ SaRoomFor(2)
    /\ saLoading' = TRUE
    /\ saReqs' = SaSend({SaReq("products")} \cup
                        (IF loadSalesSends
                         THEN {[SaReq("sales") EXCEPT !.since = Len(srvSaleLog)]}
                         ELSE {}), {})
    /\ UNCHANGED <<mounted, notSa, srvSaleLog, saProducts, saSales, saAllSales,
                   saProcessingProduct, saSuccess, saError, saLast, saOvertaken, saReturned>>

\* handleQuantityChange as it would be without the early return for a
\* return at count zero
handleQuantityChange_NoFloor(productId, increment) ==
    /\ mounted = "Sales"
    /\ IF SaFind(productId) = 0
       THEN /\ saReturned' = <<[productId |-> productId, increment |-> increment]>>
            /\ UNCHANGED <<saProcessingProduct, saReqs>>
       ELSE /\ SaRoomFor(1)
            /\ saProcessingProduct' = productId
            /\ saReqs' = SaSend({[kind |-> "post",
                                  productId |-> productId,
                                  increment |-> increment,
                                  currentQuantity |-> saSales[productId],
                                  price |-> saProducts[SaFind(productId)].price,
                                  since |-> 0]}, {})
            /\ saReturned' = saReturned
    /\ UNCHANGED <<mounted, notSa, srvSaleLog, saProducts, saSales, saAllSales, saLoading,
                   saSuccess, saError, saLast, saOvertaken>>

\* handleQuantityChange up to its await: the two early returns,
\* setProcessingProduct, api.post
handleQuantityChange(productId, increment) ==
    /\ mounted = "Sales"
    /\ IF SaFind(productId) = 0
       THEN /\ saReturned' = <<[productId |-> productId, increment |-> increment]>>
            /\ UNCHANGED <<saProcessingProduct, saReqs>>
       ELSE LET currentQuantity == saSales[productId]
            IN  IF ~increment /\ currentQuantity = 0
                THEN /\ saReturned' = <<[productId |-> productId, increment |-> increment]>>
                     /\ UNCHANGED <<saProcessingProduct, saReqs>>
                ELSE /\ SaRoomFor(1)
                     /\ saProcessingProduct' = productId
                     /\ saReqs' = SaSend({[kind |-> "post",
                                           productId |-> productId,
                                           increment |-> increment,
                                           currentQuantity |-> currentQuantity,
                                           price |-> saProducts[SaFind(productId)].price,
                                           since |-> 0]}, {})
                     /\ saReturned' = saReturned
    /\ UNCHANGED <<mounted, notSa, srvSaleLog, saProducts, saSales, saAllSales, saLoading,
                   saSuccess, saError, saLast, saOvertaken>>

\* A press on the + or - button of a product's row
saHandleQuantityChange(productId, increment) ==
    /\ SaButtonEnabled(productId, increment)
    /\ handleQuantityChange(productId, increment)

\* handleQuantityChange: the POST resolves, the server having recorded the
\* sale; setSales with the count computed before the await, then
\* loadSales() is awaited
saPostOk(r) ==
    /\ mounted = "Sales"
    /\ r \in SaInFlight
    /\ r.kind = "post"
    /\ Len(srvSaleLog) < Len(<<OtherSale>>) + MaxPosts
    /\ LET q == IF r.increment THEN 1 ELSE -1
       IN  /\ srvSaleLog' = Append(srvSaleLog,
                               [userId |-> user,
                                products |-> <<[productId |-> r.productId, quantity |-> q]>>,
                                total |-> q * r.price])
           /\ saSales' = [saSales EXCEPT ![r.productId] = r.currentQuantity + q]
           /\ IF loadSalesSends
              THEN /\ saReqs' = SaSend({[r EXCEPT !.kind = "salesAfterPost",
                                                 !.since = Len(srvSaleLog) + 1]}, {r})
                   /\ UNCHANGED <<saSuccess, saProcessingProduct, saError>>
              ELSE /\ saReqs' = SaSend({}, {r})
                   /\ saSuccess' = IF r.increment THEN "Venda registrada!"
                                   ELSE "Devolucao registrada!"
                   /\ saProcessingProduct' = Null
                   /\ saError' = SaExtraValidation(r, saError)
    /\ UNCHANGED <<mounted, notSa, saProducts, saAllSales, saLoading, saLast, saOvertaken,
                   saReturned>>

\* The rejection of the POST as it would be without the finally block
saPostError_KeepsBusy(r) ==
    /\ mounted = "Sales"
    /\ r \in SaInFlight
    /\ r.kind = "post"
    /\ saError' = SaExtraValidation(r, "Erro ao processar venda")
    /\ saReqs' = SaSend({}, {r})
    /\ UNCHANGED <<mounted, notSa, srvSaleLog, saProducts, saSales, saAllSales, saLoading,
                   saProcessingProduct, saSuccess, saLast, saOvertaken, saReturned>>

\* handleQuantityChange: the POST rejects, nothing recorded; setError,
\* finally setProcessingProduct(null), then the extra validation
saPostError(r) ==
    /\ mounted = "Sales"
    /\ r \in SaInFlight
    /\ r.kind = "post"
    /\ saError' = SaExtraValidation(r, "Erro ao processar venda")
    /\ saProcessingProduct' = Null
    /\ saReqs' = SaSend({}, {r})
    /\ UNCHANGED <<mounted, notSa, srvSaleLog, saProducts, saSales, saAllSales, saLoading,
                   saSuccess, saLast, saOvertaken, saReturned>>

\* The effects on success and error: setTimeout(() => setSuccess(''), 2000)
\* and setTimeout(() => setError(''), 3000)
saSuccessTimer ==
    /\ mounted = "Sales"
    /\ saSuccess # ""
    /\ saSuccess' = ""
    /\ UNCHANGED <<mounted, notSa, srvSaleLog, saProducts, saSales, saAllSales, saLoading,
                   saProcessingProduct, saError, saReqs, saLast, saOvertaken, saReturned>>

saErrorTimer ==
    /\ mounted = "Sales"
    /\ saError # ""
    /\ saError' = ""
    /\ UNCHANGED <<mounted, notSa, srvSaleLog, saProducts, saSales, saAllSales, saLoading,
                   saProcessingProduct, saSuccess, saReqs, saLast, saOvertaken, saReturned>>

InitSales ==
    /\ mounted = "Sales"
    /\ SignedInAs("seller")
    /\ IdlePf
    /\ IdlePl
    /\ IdleHs
    /\ IdleNav
    /\ IdleCl
    /\ IdleSs
    /\ IdleFs
    /\ IdleSl
    /\ InitSa

NextSales ==
    \/ \E r \in SaInFlight : saLoadProductsOk(r)
    \/ \E r \in SaInFlight : saLoadProductsError(r)
    \/ \E r \in SaInFlight : saLoadSalesOk(r)
    \/ \E r \in SaInFlight : saLoadSalesError(r)
    \/ saOnRefresh
    \/ \E productId \in SaProductIds : \E increment \in BOOLEAN :
          saHandleQuantityChange(productId, increment)
    \/ \E r \in SaInFlight : saPostOk(r)
    \/ \E r \in SaInFlight : saPostError(r)
    \/ saSuccessTimer
    \/ saErrorTimer

SpecSales == InitSales /\ [][NextSales]_vars

\* C9: while a POST /api/sales for a product is in flight the product's +
\* and - buttons are disabled, so at most one POST per product is in flight.
C9_OnePostPerProduct ==
    \A productId \in SaProductIds :
        /\ SaPostsInFlight(productId) <= 1
        /\ SaPostsInFlight(productId) > 0 =>
              ~SaButtonEnabled(productId, TRUE) /\ ~SaButtonEnabled(productId, FALSE)

\* The records a loadSales response carried: the first n of the server's
SaCarried(n) == UserSales(SubSeq(srvSaleLog, 1, n))

\* C10: last response wins.  Every loadSales response that arrives puts on
\* screen the sales and counts it carries, whatever arrived before it and
\* whenever its request was sent, and the sales shown stay those of the
\* response that arrived last.
C10_LastResponseWins ==
    /\ [](saLast # NoResponse => saAllSales = SaCarried(saLast.n))
    /\ [][(\E r \in SaInFlight : saLoadSalesOk(r)) =>
             /\ saAllSales' = SaCarried(saLast'.n)
             /\ saSales' = SalesCount(SaCarried(saLast'.n))]_vars

\* C10 witness: two loadSales overlapped, the one sent first arrived last
\* with fewer records, and its records are the ones shown although the
\* server holds more
C10_Witness ==
    /\ saOvertaken
    /\ SaInFlight = {}
    /\ saAllSales = SaCarried(saLast.n)
    /\ saSales = SalesCount(SaCarried(saLast.n))
    /\ Len(saAllSales) < Len(UserSales(srvSaleLog))

\* ------------------------------- handleQuantityChange called with any arguments
\* The arguments handleQuantityChange is called with: the ids of the
\* catalogue and an id no loaded product has
SaArguments == SaProductIds \cup {"p9"}

NextSalesHandler ==
    \/ \E r \in SaInFlight : saLoadProductsOk(r)
    \/ \E r \in SaInFlight : saLoadSalesOk(r)
    \/ \E r \in SaInFlight : saLoadSalesError(r)
    \/ \E productId \in SaArguments : \E increment \in BOOLEAN :
          handleQuantityChange(productId, increment)
    \/ \E r \in SaInFlight : saPostOk(r)
    \/ \E r \in SaInFlight : saPostError(r)

SpecSalesHandler == InitSales /\ [][NextSalesHandler]_vars

\* C24: a call of handleQuantityChange for a product id that is not in the
\* loaded products, or for a return of a product whose local count is 0,
\* sends no request and leaves sales, allSales, processingProduct, success
\* and error unchanged; no return request in flight was sent at count 0.
C24_EarlyReturnFrame ==
    /\ [][\A productId \in SaArguments : \A increment \in BOOLEAN :
            (/\ handleQuantityChange(productId, increment)
             /\ (SaFind(productId) = 0 \/ (~increment /\ saSales[productId] = 0)))
            => UNCHANGED <<saReqs, saSales, saAllSales, saProcessingProduct, saSuccess,
                           saError>>]_vars
    /\ [](\A r \in SaInFlight :
            (r.kind = "post" /\ ~r.increment) => r.currentQuantity # 0)

\* C24 witness: the products are loaded, a return of p1 at count 0 was the
\* last call that returned early, and nothing is in flight or processing
C24_Witness ==
    /\ saProducts # <<>>
    /\ saReturned = <<[productId |-> "p1", increment |-> FALSE]>>
    /\ saSales["p1"] = 0
    /\ SaInFlight = {}
    /\ saProcessingProduct = Null
    /\ Len(srvSaleLog) > 1

\* The sales other clients of the server record: the user's own, with the
\* same product on two lines, and another seller's
SaServerSales ==
    {[userId |-> "seller",
      products |-> <<[productId |-> "p1", quantity |-> 2],
                     [productId |-> "p1", quantity |-> 1]>>, total |-> 300],
     [userId |-> "seller",
      products |-> <<[productId |-> "p2", quantity |-> 1],
                     [productId |-> "p1", quantity |-> -1]>>, total |-> 150],
     [userId |-> "other",
      products |-> <<[productId |-> "p2", quantity |-> 3]>>, total |-> 750]}

\* Another client records a sale on the server
saServerRecords(sale) ==
    /\ mounted = "Sales"
    /\ Len(srvSaleLog) < Len(<<OtherSale>>) + MaxPosts
    /\ srvSaleLog' = Append(srvSaleLog, sale)
    /\ UNCHANGED <<mounted, notSa, saProducts, saSales, saAllSales, saLoading,
                   saProcessingProduct, saSuccess, saError, saReqs, saLast, saOvertaken,
                   saReturned>>

NextSalesFetch ==
    \/ \E r \in SaInFlight : saLoadProductsOk(r)
    \/ \E r \in SaInFlight : saLoadSalesOk(r)
    \/ \E r \in SaInFlight : saLoadSalesError(r)
    \/ saOnRefresh
    \/ \E sale \in SaServerSales : saServerRecords(sale)
    \/ \E productId \in SaProductIds : \E increment \in BOOLEAN :
          saHandleQuantityChange(productId, increment)
    \/ \E r \in SaInFlight : saPostOk(r)
    \/ \E r \in SaInFlight : saPostError(r)

SpecSalesFetch == InitSales /\ [][NextSalesFetch]_vars

\* The line items of product id in the first n records of the server that
\* belong to the current user, as pairs of positions
SaUserLines(n, id) ==
    {ij \in (1..n) \X (1..MaxLines) :
        /\ srvSaleLog[ij[1]].userId = user
        /\ ij[2] \in DOMAIN srvSaleLog[ij[1]].products
        /\ srvSaleLog[ij[1]].products[ij[2]].productId = id}

\* C25: when a loadSales of the signed-in user succeeds, allSales is the
\* fetched sales with the user's id, in order, and the count of every
\* product is the sum of quantity over the line items of that product in
\* those sales; a fetch of the sales is only ever sent with a user id.
C25_LoadSalesCounts ==
    /\ [][(\E r \in SaInFlight : saLoadSalesOk(r)) =>
            LET n == saLast'.n
                Mine(sale) == sale.userId = user
            IN  /\ user # Null
                /\ saAllSales' = SelectSeq(SubSeq(srvSaleLog, 1, n), Mine)
                /\ \A i \in DOMAIN saAllSales' : saAllSales'[i].userId = user
                /\ \A id \in SaProductIds :
                      saSales'[id] =
                         SumOver(SaUserLines(n, id),
                                 [ij \in SaUserLines(n, id) |->
                                     srvSaleLog[ij[1]].products[ij[2]].quantity])]_vars
    /\ [][\A r \in SaInFlight' \ SaInFlight :
            r.kind \in {"sales", "salesAfterPost"} => loadSalesSends]_vars

\* C25 witness: a loadSales has brought the user's sale with p1 on two
\* lines while the server also holds another seller's sale of p1
C25_Witness ==
    /\ Len(saAllSales) = 1
    /\ Len(saAllSales[1].products) = 2
    /\ saLast.n = Len(srvSaleLog)
    /\ saSales["p1"] = 3
    /\ saSales["p2"] = 0
    /\ \E i \in DOMAIN srvSaleLog : srvSaleLog[i].userId # user
    /\ SaInFlight = {}

\* C26: no sale is posted for a product whose price is negative, and no
\* return is posted when the count of the product, as handleQuantityChange
\* read it, is less than or equal to 0.
C26_NoNegativePosts ==
    \A r \in SaInFlight :
        r.kind = "post" =>
            /\ r.increment => r.price >= 0
            /\ ~r.increment => r.currentQuantity > 0

\* SalesScreen with the scheduling of its requests: a POST in flight is
\* answered or fails, and so is the reload of the sales that follows it
NextSalesAnswered ==
    \/ \E r \in SaInFlight : saLoadProductsOk(r)
    \/ \E r \in SaInFlight : saLoadSalesOk(r)
    \/ \E r \in SaInFlight : saLoadSalesError(r)
    \/ \E productId \in SaProductIds : \E increment \in BOOLEAN :
          saHandleQuantityChange(productId, increment)
    \/ \E r \in SaInFlight : saPostOk(r)
    \/ \E r \in SaInFlight : saPostError(r)

SpecSalesAnswered ==
    /\ InitSales /\ [][NextSalesAnswered]_vars
    /\ WF_vars(\E r \in SaInFlight : saPostOk(r) \/ saPostError(r))
    /\ WF_vars(\E r \in SaInFlight :
                    /\ r.kind = "salesAfterPost"
                    /\ saLoadSalesOk(r) \/ saLoadSalesError(r))

\* C27: a busy flag that is set is released; when the POST of a sale or
\* return fails processingProduct is set to null, the counts stay as they
\* were and an error message is set; when the POST succeeded and the reload
\* of the sales has ended, processingProduct is set to null and the success
\* message of the sale or the return is set.
C27_BusyReleased ==
    /\ (saProcessingProduct # Null) ~> (saProcessingProduct = Null)
    /\ [][(\E r \in SaInFlight : saPostError(r)) =>
            /\ saProcessingProduct' = Null
            /\ saSales' = saSales
            /\ Truthy(saError')]_vars
    /\ [][\A r \in SaInFlight :
            (r.kind = "salesAfterPost" /\ (saLoadSalesOk(r) \/ saLoadSalesError(r))) =>
                /\ saProcessingProduct' = Null
                /\ saSuccess' = IF r.increment THEN "Venda registrada!"
                                ELSE "Devolucao registrada!"]_vars

\* C27 witness: a sale went through, its reload has ended, the flag is
\* released and the success message is shown
C27_Witness ==
    /\ saSuccess = "Venda registrada!"
    /\ saProcessingProduct = Null
    /\ SaInFlight = {}
    /\ Len(srvSaleLog) > 1

\* ProductListScreen of an administrator after a successful load: cards are
\* deleted, the requests overlap, and each is answered or fails
NextProductDelete ==
    \/ \E k \in 1..MaxProducts : plHandleDeleteClick(k)
    \/ \E i \in PlSlots : plDeleteOk(i)
    \/ \E i \in PlSlots : plDeleteError(i)

SpecProductDelete == InitProductEdit /\ [][NextProductDelete]_vars

\* C28: a successful delete removes the deleted product from the local list
\* and leaves every other entry as it is, also when the deletes of two
\* products overlap: the list after the response is the list before it
\* without the deleted product, so a product removed by an earlier response
\* stays removed.
C28_DeleteRemovesOne ==
    [][\A i \in PlSlots :
          plDeleteOk(i) =>
              plProducts' = LET Other(p) == p._id # plReqs[i].id
                            IN  SelectSeq(plProducts, Other)]_vars

\* C29: once the startup loading has finished, a user in memory
\* (isAuthenticated) implies a token and a user record in device storage,
\* whatever the interleaving of signIn, signOut and responses, 401 included.
\* Stated for the states at rest, where no signOut is between its two
\* removals and no request or response handler is under way.
C29_AuthAgreesWithStorage ==
    (/\ ~authLoading
     /\ isAuthenticated
     /\ signOutPc = "idle"
     /\ \A i \in Slots : calls[i] = NoCall)
        => (storedToken # Null /\ storedUser # Null)

\* SalesScreen where every request succeeds and only this screen records
\* sales: presses of + and -, pull-to-refresh, and the answers
NextSalesOk ==
    \/ \E r \in SaInFlight : saLoadProductsOk(r)
    \/ \E r \in SaInFlight : saLoadSalesOk(r)
    \/ saOnRefresh
    \/ \E productId \in SaProductIds : \E increment \in BOOLEAN :
          saHandleQuantityChange(productId, increment)
    \/ \E r \in SaInFlight : saPostOk(r)

SpecSalesOk == InitSales /\ [][NextSalesOk]_vars

\* C30: when no request is in flight, every request having succeeded, the
\* counts shown are the counts of the user's sales on the server.
C30_CountsAgreeAtRest ==
    SaInFlight = {} => saSales = SalesCount(UserSales(srvSaleLog))

\* ------------------------------------------- leaving a screen with requests
\* The native stack removes ProductListScreen (the header's back button,
\* the system back gesture).  The component has no effect cleanup and its
\* requests carry no AbortController signal: they stay in flight.
plGoBack ==
    /\ mounted = "ProductList"
    /\ plMounted
    /\ plMounted' = FALSE
    /\ UNCHANGED <<mounted, notPl, plListId, plProducts, plLoading, plRefreshing, plError,
                   plEditModalVisible, plSelectedProduct, plEditForm, plReqs, plReturned,
                   plAfterLoad>>

\* The same for StockListScreen (its header's back button navigates to Home)
slGoBack ==
    /\ mounted = "StockList"
    /\ slMounted
    /\ slMounted' = FALSE
    /\ UNCHANGED <<mounted, notSl, srvLists, slLists, slLoading, slRefreshing, slError,
                   slCreateModalVisible, slNewListName, slProducts, slUsers,
                   slSelectedProducts, slSelectedUsers, slReqs>>

\* The two list screens after their mount effects
InitUnmount ==
    \/ InitProductList
    \/ InitStockList

NextUnmount ==
    \/ NextProductList
    \/ plGoBack
    \/ \E i \in SlSlots : slLoadListsOk(i)
    \/ \E i \in SlSlots : slLoadListsError(i)
    \/ \E i \in SlSlots : slLoadDataOk(i)
    \/ \E i \in SlSlots : slLoadDataError(i)
    \/ slOnRefresh
    \/ slGoBack

SpecUnmount == InitUnmount /\ [][NextUnmount]_vars

\* A request of ProductListScreen in slot i has ended in this step
PlEnded(i, kind) == plReqs[i].kind = kind /\ plReqs'[i].kind = "none"
SlEnded(i, kinds) == slReqs[i].kind \in kinds /\ slReqs'[i].kind = "none"

\* C11: leaving a screen cancels none of its requests, and a fetch that
\* ends after its screen was left still runs the state setters of its
\* handler: loadProducts and loadLists clear loading (and refreshing) and
\* store the entries with the error cleared, or set the error; loadData
\* stores the products or sets the error.
C11_LateResponseUpdates ==
    /\ [][(plMounted /\ ~plMounted') => plReqs' = plReqs]_vars
    /\ [][(slMounted /\ ~slMounted') => slReqs' = slReqs]_vars
    /\ [][\A i \in PlSlots :
            (~plMounted /\ PlEnded(i, "load")) =>
                  /\ ~plLoading'
                  /\ (plReqs[i].id = "refresh" => ~plRefreshing')
                  /\ IF plAfterLoad' THEN plError' = "" /\ plProducts' = plReturned'
                     ELSE Truthy(plError')]_vars
    /\ [][\A i \in SlSlots :
            /\ (~slMounted /\ SlEnded(i, {"lists", "refresh"})) =>
                  /\ ~slLoading'
                  /\ (slReqs[i].kind = "refresh" => ~slRefreshing')
                  /\ (slError' = "" /\ slLists' = srvLists) \/ slError' = "Failed to load lists"
            /\ (~slMounted /\ SlEnded(i, {"data"})) =>
                  \/ slProducts' = SlProductIds
                  \/ slError' = "Failed to load data"]_vars

\* C11 witness: the mount load of ProductListScreen resolved after the
\* screen was left, and its entries were stored
C11_Witness ==
    /\ mounted = "ProductList"
    /\ ~plMounted
    /\ plAfterLoad
    /\ ~plLoading
    /\ Len(plProducts) = MaxProducts

\* ---------------------------------------------------- HomeScreen: the actions
\* HomeScreen is the screen in front of the user (always, in the scenarios
\* that do not navigate)
HsFocused ==
    \/ navStack = <<>>
    \/ navStack # <<>> /\ navStack[Len(navStack)] = "Home"
    \/ navStack # <<>> /\ navStack[Len(navStack)] = "TabNavigator" /\ navTab = "HomeTab"

\* What the component shows under the filter buttons
HsRender ==
    IF hsLoading THEN "spinner"
    ELSE IF Truthy(hsError) THEN "error"
    ELSE IF Len(hsFilteredProducts) = 0 THEN "empty"
    ELSE "cards"

HsSend(kind) == hsReqs (+) SetToBag({kind})
HsDone(kind) == hsReqs (-) SetToBag({kind})

\* loadProducts: api.get resolves; setProducts, setError(''), finally
\* setLoading(false); onRefresh then runs setRefreshing(false).  The new
\* products array schedules the filter effect.
hsLoadOk(kind) ==
    /\ mounted = "Home"
    /\ BagIn(kind, hsReqs)
    /\ \E resp \in HsProductLists : hsProducts' = resp
    /\ hsError' = ""
    /\ hsLoading' = FALSE
    /\ hsRefreshing' = IF kind = "refresh" THEN FALSE ELSE hsRefreshing
    /\ hsReqs' = HsDone(kind)
    /\ hsFilterPending' = TRUE
    /\ UNCHANGED <<mounted, notHs, hsFilteredProducts, hsSelectedCategory, hsSent, hsTriggers>>

\* loadProducts as it would be if its catch called loadProducts again
hsLoadError_Retries(kind) ==
    /\ mounted = "Home"
    /\ BagIn(kind, hsReqs)
    /\ hsError' = "Erro ao carregar produtos"
    /\ IF hsSent < MaxLoads
       THEN /\ hsSent' = hsSent + 1
            /\ UNCHANGED <<hsReqs, hsLoading, hsRefreshing>>
       ELSE /\ hsLoading' = FALSE
            /\ hsRefreshing' = IF kind = "refresh" THEN FALSE ELSE hsRefreshing
            /\ hsReqs' = HsDone(kind)
            /\ UNCHANGED hsSent
    /\ UNCHANGED <<mounted, notHs, hsProducts, hsFilteredProducts, hsSelectedCategory,
                   hsFilterPending, hsTriggers>>

\* loadProducts: api.get rejects; catch: setError, finally setLoading(false);
\* nothing is sent
hsLoadError(kind) ==
    /\ mounted = "Home"
    /\ BagIn(kind, hsReqs)
    /\ hsError' = "Erro ao carregar produtos"
    /\ hsLoading' = FALSE
    /\ hsRefreshing' = IF kind = "refresh" THEN FALSE ELSE hsRefreshing
    /\ hsReqs' = HsDone(kind)
    /\ UNCHANGED <<mounted, notHs, hsProducts, hsFilteredProducts, hsSelectedCategory,
                   hsFilterPending, hsSent, hsTriggers>>

\* Tentar Novamente in the error view, Recarregar in the empty view:
\* onPress={loadProducts}, up to its await
hsLoadProducts ==
    /\ mounted = "Home"
    /\ HsFocused
    /\ HsRender \in {"error", "empty"}
    /\ hsTriggers < MaxLoads
    /\ hsLoading' = TRUE
    /\ hsReqs' = HsSend("load")
    /\ hsSent' = hsSent + 1
    /\ hsTriggers' = hsTriggers + 1
    /\ UNCHANGED <<mounted, notHs, hsProducts, hsFilteredProducts, hsSelectedCategory,
                   hsRefreshing, hsError, hsFilterPending>>

\* RefreshControl onRefresh (the control is part of the ScrollView)
hsOnRefresh ==
    /\ mounted = "Home"
    /\ HsFocused
    /\ HsRender \in {"empty", "cards"}
    /\ ~hsRefreshing
    /\ hsTriggers < MaxLoads
    /\ hsRefreshing' = TRUE
    /\ hsLoading' = TRUE
    /\ hsReqs' = HsSend("refresh")
    /\ hsSent' = hsSent + 1
    /\ hsTriggers' = hsTriggers + 1
    /\ UNCHANGED <<mounted, notHs, hsProducts, hsFilteredProducts, hsSelectedCategory,
                   hsError, hsFilterPending>>

\* A filter button: handleCategoryFilter(category); a changed
\* selectedCategory schedules the filter effect
hsHandleCategoryFilter(category) ==
    /\ mounted = "Home"
    /\ HsFocused
    /\ hsSelectedCategory' = category
    /\ hsFilterPending' = (hsFilterPending \/ category # hsSelectedCategory)
    /\ UNCHANGED <<mounted, notHs, hsProducts, hsFilteredProducts, hsLoading, hsRefreshing,
                   hsError, hsReqs, hsSent, hsTriggers>>

\* The filter as it would be if it also kept the products of no category
HsFilter_KeepsOthers(products, category) ==
    LET Keep(product) == category \in {"all", product.category, "infantil"}
    IN  SelectSeq(products, Keep)

\* products, or products.filter(product => product.category === selectedCategory)
HsFilter(products, category) ==
    IF category = "all" THEN products
    ELSE LET Matches(product) == product.category = category
         IN  SelectSeq(products, Matches)

\* useEffect(..., [selectedCategory, products])
hsFilterEffect ==
    /\ mounted = "Home"
    /\ hsFilterPending
    /\ hsFilteredProducts' = HsFilter(hsProducts, hsSelectedCategory)
    /\ hsFilterPending' = FALSE
    /\ UNCHANGED <<mounted, notHs, hsProducts, hsSelectedCategory, hsLoading, hsRefreshing,
                   hsError, hsReqs, hsSent, hsTriggers>>

InitHome ==
    /\ mounted = "Home"
    /\ \E u \in Users : SignedInAs(u)
    /\ IdlePf
    /\ IdlePl
    /\ IdleSs
    /\ IdleFs
    /\ IdleSl
    /\ IdleSa
    /\ IdleNav
    /\ IdleCl
    /\ InitHs

NextHome ==
    \/ \E kind \in {"load", "refresh"} : hsLoadOk(kind)
    \/ \E kind \in {"load", "refresh"} : hsLoadError(kind)
    \/ hsLoadProducts
    \/ hsOnRefresh
    \/ \E category \in HsFilters : hsHandleCategoryFilter(category)
    \/ hsFilterEffect

SpecHome == InitHome /\ [][NextHome]_vars

\* C13: every request of HomeScreen was issued by the mount or by one press
\* or pull, one request each; a step that sends a request is such a press or
\* pull, so after a failed request nothing is sent until the user acts; and
\* a failed request leaves none in flight behind it.
C13_NoAutomaticRetry ==
    /\ [](hsSent = hsTriggers)
    /\ [][hsSent' # hsSent => (hsSent' = hsSent + 1 /\ hsTriggers' = hsTriggers + 1)]_vars
    /\ [][BagCardinality(hsReqs') > BagCardinality(hsReqs) => hsTriggers' = hsTriggers + 1]_vars
    /\ [][(Truthy(hsError') /\ ~Truthy(hsError)) =>
             BagCardinality(hsReqs') = BagCardinality(hsReqs) - 1]_vars

\* C13 witness: the mount load failed, the error view is shown and nothing
\* is in flight
C13_Witness ==
    /\ mounted = "Home"
    /\ HsRender = "error"
    /\ hsReqs = EmptyBag
    /\ hsSent = 1
    /\ hsTriggers = 1

\* C18: once the filter effect has run, filteredProducts is products for
\* 'all' and otherwise the products of the selected category in their
\* order; a change of the selected category sends nothing and leaves
\* products, loading and error unchanged.
C18_FilterByCategory ==
    /\ [](~hsFilterPending =>
            /\ hsSelectedCategory = "all" => hsFilteredProducts = hsProducts
            /\ hsSelectedCategory # "all" =>
                  /\ \A k \in DOMAIN hsFilteredProducts :
                        hsFilteredProducts[k].category = hsSelectedCategory
                  /\ \A k \in DOMAIN hsProducts :
                        hsProducts[k].category = hsSelectedCategory =>
                           \E m \in DOMAIN hsFilteredProducts :
                              hsFilteredProducts[m] = hsProducts[k]
                  /\ \A m, n \in DOMAIN hsFilteredProducts : m < n =>
                        \E k, l \in DOMAIN hsProducts :
                           /\ k < l
                           /\ hsProducts[k] = hsFilteredProducts[m]
                           /\ hsProducts[l] = hsFilteredProducts[n])
    /\ [][hsSelectedCategory' # hsSelectedCategory =>
             /\ hsReqs' = hsReqs
             /\ hsSent' = hsSent
             /\ hsProducts' = hsProducts
             /\ hsLoading' = hsLoading
             /\ hsError' = hsError]_vars

\* C18 witness: of two loaded products the one of the selected category is
\* shown
C18_Witness ==
    /\ mounted = "Home"
    /\ ~hsFilterPending
    /\ hsSelectedCategory = "masculino"
    /\ Len(hsFilteredProducts) = 1
    /\ Len(hsProducts) = 2

\* ------------------------------------------ failed requests on list screens
\* The product list of an administrator after its load, and the stock list
\* screen after its mount effect.  The server rejects every request of the
\* product list and every create.
InitListFailures ==
    \/ InitProductEdit
    \/ InitStockList

NextListFailures ==
    \/ plOnRefresh
    \/ \E i \in PlSlots : plLoadError(i)
    \/ \E k \in 1..MaxProducts : plHandleEditClick(k)
    \/ plHandleEditSubmit
    \/ \E i \in PlSlots : plPutError(i)
    \/ \E k \in 1..MaxProducts : plHandleDeleteClick(k)
    \/ \E i \in PlSlots : plDeleteError(i)
    \/ \E i \in SlSlots : slLoadListsOk(i)
    \/ \E i \in SlSlots : slLoadListsError(i)
    \/ \E i \in SlSlots : slLoadDataOk(i)
    \/ \E i \in SlSlots : slLoadDataError(i)
    \/ slOnRefresh
    \/ slOpenCreate
    \/ \E v \in ListNames : slSetNewListName(v)
    \/ \E k \in 1..Len(SlProductIds) : slToggleProduct(k)
    \/ slHandleCreateList
    \/ \E i \in SlSlots : slPostError(i)

SpecListFailures == InitListFailures /\ [][NextListFailures]_vars

\* A request of ProductListScreen, of StockListScreen fails in this step
PlFails == \E i \in PlSlots : plLoadError(i) \/ plPutError(i) \/ plDeleteError(i)
SlFails == \E i \in SlSlots : slLoadListsError(i) \/ slLoadDataError(i) \/ slPostError(i)

\* C14: a failed load, edit, delete or create on a list screen changes the
\* error message and the loading and refreshing flags only: the products,
\* the lists, the selected product, the dialogs and the form fields stay as
\* they were, and so do the stored token and user.
C14_FailureKeepsData ==
    /\ [][PlFails =>
            /\ Truthy(plError')
            /\ UNCHANGED <<plProducts, plSelectedProduct, plEditForm, plEditModalVisible,
                           plListId>>
            /\ UNCHANGED <<storedToken, storedUser, user>>]_vars
    /\ [][SlFails =>
            /\ Truthy(slError')
            /\ UNCHANGED <<slLists, slProducts, slUsers, slCreateModalVisible, slNewListName,
                           slSelectedProducts, slSelectedUsers>>
            /\ UNCHANGED <<storedToken, storedUser, user>>]_vars

\* C14 witness: an edit of a listed product failed; the dialog still holds
\* the product and the card list is as it was loaded
C14_Witness ==
    /\ mounted = "ProductList"
    /\ plError = "Erro ao atualizar produto. Por favor, tente novamente."
    /\ plEditModalVisible
    /\ plSelectedProduct # Null
    /\ plEditForm.name = "a"
    /\ Len(plProducts) = MaxProducts

\* ------------------------------------------------- navigation: the actions
MaxDepth == 3

\* The first screen AppNavigator registers for user u
InitialRoute(u) == IF u = Null THEN "Login" ELSE IF UserIsAdmin(u) THEN "Home" ELSE "TabNavigator"

NavTop == navStack[Len(navStack)]

\* The screen component in front of the user
NavCurrentScreen ==
    IF NavTop = "TabNavigator" THEN (IF navTab = "HomeTab" THEN "Home" ELSE "Sales")
    ELSE NavTop

\* renderAdminMenu as it would be without `if (!isAdmin) return null`
renderAdminMenu_Ungated == user # Null

\* HomeScreen.renderAdminMenu returns the menu (it is called in the list
\* view)
renderAdminMenu == isAdmin

\* The targets of the admin menu's buttons
AdminMenuTargets == {"StockList", "ProductForm", "Register", "CustomListForm", "SalesSummary",
                     "CreateAdmin"}

\* The screens that send POST, PUT or DELETE requests for products, custom
\* lists or users
MutationScreens == {"ProductForm", "ProductList", "StockList", "Register", "CreateAdmin",
                    "CustomListForm"}

\* navigation.navigate(name): the stack goes back to the route when it
\* holds one of that name, or pushes a new one (the two behaviours of the
\* library's major versions)
NavNavigate(name) ==
    \/ /\ Len(navStack) < MaxDepth
       /\ navStack' = Append(navStack, name)
    \/ \E k \in DOMAIN navStack :
          /\ navStack[k] = name
          /\ navStack' = SubSeq(navStack, 1, k)

\* signIn completed for user u: AppNavigator replaces Login by the screens
\* of a signed-in user, the first of them focused; a new HomeScreen mounts
\* and its mount effect calls loadProducts (the requests of the previous
\* HomeScreen, if any are left, belong to that unmounted component)
navSignIn(u) ==
    /\ mounted = "Home"
    /\ NavTop = "Login"
    /\ user' = u
    /\ storedToken' = TokenOf(u)
    /\ storedUser' = JSONstringify(u)
    /\ navStack' = <<InitialRoute(u)>>
    /\ navTab' = "HomeTab"
    /\ hsProducts' = <<>>
    /\ hsFilteredProducts' = <<>>
    /\ hsSelectedCategory' = "all"
    /\ hsLoading' = TRUE
    /\ hsRefreshing' = FALSE
    /\ hsError' = ""
    /\ hsReqs' = SetToBag({"load"})
    /\ hsFilterPending' = FALSE
    /\ hsSent' = 1
    /\ hsTriggers' = 1
    /\ UNCHANGED <<mounted, pfVars, plVars, ssVars, fsVars, slVars, saVars, clVars, authLoading,
                   loadPc, loadedUser, calls, signOutPc, loginLoading, loginError, restarts,
                   signedOut, cleared401>>

\* The logout action of HomeScreen's header, confirmed: signOut completed
\* and AppNavigator registers Login alone
navSignOut ==
    /\ mounted = "Home"
    /\ NavCurrentScreen = "Home"
    /\ user' = Null
    /\ storedToken' = Null
    /\ storedUser' = Null
    /\ navStack' = <<InitialRoute(Null)>>
    /\ navTab' = "HomeTab"
    /\ UNCHANGED <<mounted, notNav, authLoading, loadPc, loadedUser, calls, signOutPc,
                   loginLoading, loginError, restarts, signedOut, cleared401>>

\* A button of the admin menu
navAdminMenu(name) ==
    /\ mounted = "Home"
    /\ NavCurrentScreen = "Home"
    /\ HsRender \in {"empty", "cards"}
    /\ renderAdminMenu
    /\ name \in AdminMenuTargets
    /\ NavNavigate(name)
    /\ UNCHANGED <<mounted, notNav, authVars, navTab>>

\* A press on a tab of the tab bar
navTabPress(tab) ==
    /\ mounted = "Home"
    /\ NavTop = "TabNavigator"
    /\ navTab' = tab
    /\ UNCHANGED <<mounted, notNav, authVars, navStack>>

\* navigation.goBack(): a header's back button, the system back gesture, a
\* form after its submission
navGoBack ==
    /\ mounted = "Home"
    /\ Len(navStack) > 1
    /\ navStack' = SubSeq(navStack, 1, Len(navStack) - 1)
    /\ UNCHANGED <<mounted, notNav, authVars, navTab>>

\* The back button of StockListScreen: navigation.navigate('Home')
navStockListBack ==
    /\ mounted = "Home"
    /\ NavTop = "StockList"
    /\ "Home" \in AppNavigator
    /\ NavNavigate("Home")
    /\ UNCHANGED <<mounted, notNav, authVars, navTab>>

\* Ver Produtos on a card of StockListScreen
navViewList ==
    /\ mounted = "Home"
    /\ NavTop = "StockList"
    /\ NavNavigate("CustomListDisplay")
    /\ UNCHANGED <<mounted, notNav, authVars, navTab>>

\* OK in the success alert of CustomListFormScreen
navListCreated ==
    /\ mounted = "Home"
    /\ NavTop = "CustomListForm"
    /\ NavNavigate("StockList")
    /\ UNCHANGED <<mounted, notNav, authVars, navTab>>

\* A signed-in user on the first screen, HomeScreen mounted
InitNavigation ==
    /\ mounted = "Home"
    /\ \E u \in Users : SignedInAs(u)
    /\ IdlePf
    /\ IdlePl
    /\ IdleSs
    /\ IdleFs
    /\ IdleSl
    /\ IdleSa
    /\ InitHs
    /\ IdleCl
    /\ navStack = <<InitialRoute(user)>>
    /\ navTab = "HomeTab"

NextNavigation ==
    \/ \E kind \in {"load", "refresh"} : hsLoadOk(kind)
    \/ \E kind \in {"load", "refresh"} : hsLoadError(kind)
    \/ hsLoadProducts
    \/ hsOnRefresh
    \/ hsFilterEffect
    \/ \E u \in Users : navSignIn(u)
    \/ navSignOut
    \/ \E name \in AdminMenuTargets : navAdminMenu(name)
    \/ \E tab \in {"HomeTab", "SalesTab"} : navTabPress(tab)
    \/ navGoBack
    \/ navStockListBack
    \/ navViewList
    \/ navListCreated

SpecNavigation == InitNavigation /\ [][NextNavigation]_vars

\* C15: while a non-admin user is signed in, the stack holds TabNavigator
\* alone, the screen shown is HomeScreen or SalesScreen, the admin menu is
\* not rendered, and no screen that sends product, custom-list or user
\* mutations is in the stack.
C15_NonAdminConfined ==
    (user # Null /\ ~isAdmin) =>
        /\ navStack = <<"TabNavigator">>
        /\ NavCurrentScreen \in {"Home", "Sales"}
        /\ ~renderAdminMenu
        /\ \A k \in DOMAIN navStack : navStack[k] \notin MutationScreens

\* C15 witness: a non-admin user is on the Sales tab, the products of the
\* Home tab loaded
C15_Witness ==
    /\ mounted = "Home"
    /\ user = "seller"
    /\ HsRender = "cards"
    /\ navStack = <<"TabNavigator">>
    /\ navTab = "SalesTab"

\* ------------------------------------------------ the commission fallbacks
\* Products and sale records with and without a commission of their own
CommissionProducts == [_id : {"p1"}, price : {0, 100, 250, 1990}, commission : {0, 50, 75}]
CommissionSales ==
    [userId : SaleUserIds, products : {<<>>}, total : {-105, 0, 100, 105, 250},
     commission : {0, -30, 50}]

\* SalesScreen.loadProducts maps the product
fsAddCommission ==
    /\ mounted = "formatSale"
    /\ fsProduct # <<>>
    /\ fsWithCommission = <<>>
    /\ fsWithCommission' = <<withCommission(fsProduct[1])>>
    /\ UNCHANGED <<mounted, notFs, fsSale, fsFormatted, fsProduct>>

InitCommission ==
    /\ mounted = "formatSale"
    /\ SignedInAs("admin")
    /\ IdlePf
    /\ IdlePl
    /\ IdleHs
    /\ IdleNav
    /\ IdleCl
    /\ IdleSs
    /\ IdleSl
    /\ IdleSa
    /\ fsSale \in CommissionSales
    /\ fsFormatted = <<>>
    /\ fsProduct \in {<<product>> : product \in CommissionProducts}
    /\ fsWithCommission = <<>>

NextCommission == fsFormat \/ fsAddCommission

SpecCommission == InitCommission /\ [][NextCommission]_vars

\* C16: SalesScreen keeps a product's own commission when it is not zero
\* and otherwise stores 30% of its price; SalesSummaryScreen keeps a sale's
\* own commission when it is not zero and otherwise stores 30% of the
\* sale's total rounded to the cent.
C16_CommissionFallback ==
    /\ fsWithCommission # <<>> =>
          /\ fsProduct[1].commission # 0 =>
                fsWithCommission[1].commission = fsProduct[1].commission
          /\ fsProduct[1].commission = 0 =>
                10 * fsWithCommission[1].commission = 3 * fsProduct[1].price
          /\ fsWithCommission[1].price = fsProduct[1].price
    /\ fsFormatted # <<>> =>
          /\ fsSale.commission # 0 => fsFormatted[1].commission = fsSale.commission
          /\ fsSale.commission = 0 =>
                /\ 10 * fsFormatted[1].commission - 3 * fsSale.total <= 5
                /\ 3 * fsSale.total - 10 * fsFormatted[1].commission <= 5
          /\ fsFormatted[1].total = fsSale.total

\* C16 witness: a product and a sale without a commission of their own got
\* 30% of the price, 30% of the total rounded
C16_Witness ==
    /\ fsWithCommission # <<>>
    /\ fsProduct[1].commission = 0
    /\ fsWithCommission[1].commission = 597
    /\ fsFormatted # <<>>
    /\ fsSale.commission = 0
    /\ fsSale.total = 105
    /\ fsFormatted[1].commission = 32

\* ------------------------------------------- CustomListFormScreen, actions
\* loadData: both requests of Promise.all resolve; setProducts, the
\* administrators are filtered out of the users, finally setDataLoading(false)
clLoadDataOk ==
    /\ mounted = "CustomListForm"
    /\ clDataLoading
    /\ clProducts' = ClProductIds
    /\ clUsers' = LET Regular(u) == ~u.isAdmin IN SelectSeq(ClUsersData, Regular)
    /\ clDataLoading' = FALSE
    /\ UNCHANGED <<mounted, notCl, clName, clSelectedProducts, clSelectedUsers, clLoading,
                   clError, clPosts>>

\* loadData: one of the requests rejects
clLoadDataError ==
    /\ mounted = "CustomListForm"
    /\ clDataLoading
    /\ clError' = "Falha ao carregar dados. Por favor, tente novamente."
    /\ clDataLoading' = FALSE
    /\ UNCHANGED <<mounted, notCl, clName, clProducts, clUsers, clSelectedProducts,
                   clSelectedUsers, clLoading, clPosts>>

\* onChangeText of the name input
clSetName(v) ==
    /\ mounted = "CustomListForm"
    /\ ~clDataLoading
    /\ clName' = v
    /\ UNCHANGED <<mounted, notCl, clProducts, clUsers, clSelectedProducts, clSelectedUsers,
                   clLoading, clDataLoading, clError, clPosts>>

\* The checkbox of the k-th product
clToggleProduct(k) ==
    /\ mounted = "CustomListForm"
    /\ ~clDataLoading
    /\ k \in DOMAIN clProducts
    /\ clSelectedProducts' = Toggle(clSelectedProducts, clProducts[k])
    /\ UNCHANGED <<mounted, notCl, clName, clProducts, clUsers, clSelectedUsers, clLoading,
                   clDataLoading, clError, clPosts>>

\* The checkbox of the k-th user
clToggleUser(k) ==
    /\ mounted = "CustomListForm"
    /\ ~clDataLoading
    /\ k \in DOMAIN clUsers
    /\ clSelectedUsers' = ToggleUser(clSelectedUsers, clUsers[k])
    /\ UNCHANGED <<mounted, notCl, clName, clProducts, clUsers, clSelectedProducts, clLoading,
                   clDataLoading, clError, clPosts>>

\* The disabled prop of the Criar Lista button, negated
ClSubmitEnabled == Trim(clName) # "" /\ Len(clSelectedProducts) # 0 /\ ~clLoading

\* The validations of handleSubmit, in the order of the code: the message to
\* show, or "" when the request is to be sent
ClValidation(name, products) ==
    IF Trim(name) = "" THEN "Por favor, digite um nome para a lista"
    ELSE IF Len(products) = 0 THEN "Por favor, selecione pelo menos um produto"
    ELSE ""

\* A press on the Criar Lista button: handleSubmit up to its await.
\* description and isPublic of the request body are left out.
clHandleSubmit ==
    /\ mounted = "CustomListForm"
    /\ ~clDataLoading
    /\ ClSubmitEnabled
    /\ LET message == ClValidation(clName, clSelectedProducts)
       IN  IF message # ""
           THEN clError' = message /\ clLoading' = FALSE /\ clPosts' = clPosts
           ELSE /\ clError' = ""
                /\ clLoading' = TRUE
                /\ clPosts' = Append(clPosts, [name |-> Trim(clName),
                                               products |-> clSelectedProducts,
                                               sharedWith |-> UserIdsOf(clSelectedUsers)])
    /\ UNCHANGED <<mounted, notCl, clName, clProducts, clUsers, clSelectedProducts,
                   clSelectedUsers, clDataLoading>>

\* handleSubmit: createCustomList resolves; the alert is shown, finally
\* setLoading(false)
clPostOk ==
    /\ mounted = "CustomListForm"
    /\ clPosts # <<>>
    /\ clPosts' = Tail(clPosts)
    /\ clLoading' = FALSE
    /\ UNCHANGED <<mounted, notCl, clName, clProducts, clUsers, clSelectedProducts,
                   clSelectedUsers, clDataLoading, clError>>

\* handleSubmit: createCustomList rejects
clPostError ==
    /\ mounted = "CustomListForm"
    /\ clPosts # <<>>
    /\ clPosts' = Tail(clPosts)
    /\ clError' = "Falha ao criar lista. Por favor, tente novamente."
    /\ clLoading' = FALSE
    /\ UNCHANGED <<mounted, notCl, clName, clProducts, clUsers, clSelectedProducts,
                   clSelectedUsers, clDataLoading>>

InitCustomListForm ==
    /\ mounted = "CustomListForm"
    /\ SignedInAs("admin")
    /\ IdlePf
    /\ IdlePl
    /\ IdleSs
    /\ IdleFs
    /\ IdleSl
    /\ IdleSa
    /\ IdleHs
    /\ IdleNav
    /\ InitCl

\* ---------------------------------------- creating a custom list, both screens
InitCreateList == InitStockList \/ InitCustomListForm

NextCreateList ==
    \/ \E i \in SlSlots : slLoadListsOk(i)
    \/ \E i \in SlSlots : slLoadDataOk(i)
    \/ slOpenCreate
    \/ \E v \in ListNames : slSetNewListName(v)
    \/ \E k \in 1..Len(SlProductIds) : slToggleProduct(k)
    \/ \E k \in 1..Len(SlUserIds) : slToggleUser(k)
    \/ slHandleCreateList
    \/ \E i \in SlSlots : slPostOk(i)
    \/ \E i \in SlSlots : slPostError(i)
    \/ clLoadDataOk
    \/ clLoadDataError
    \/ \E v \in ListNames : clSetName(v)
    \/ \E k \in 1..Len(ClProductIds) : clToggleProduct(k)
    \/ \E k \in 1..Len(ClUsersData) : clToggleUser(k)
    \/ clHandleSubmit
    \/ clPostOk
    \/ clPostError

SpecCreateList == InitCreateList /\ [][NextCreateList]_vars

C17_WitnessForm ==
    /\ mounted = "CustomListForm"
    /\ clPosts # <<>>
    /\ clPosts[1].sharedWith = <<"seller2", "seller">>
    /\ clPosts[1].products = <<"p2">>
====
